---------------------------- MODULE Spec2Model ----------------------------
(***************************************************************************)
(* NanoCore: an 8-bit CPU emulator (256 bytes of memory, sixteen 8-bit     *)
(* registers, 8-bit pc and sp).  The model follows src/src/nanocore.rs     *)
(* (NanoCore: load_program, run, cycle, fetch_decode, execute),            *)
(* src/src/cpu.rs (CPU: state and flags), src/src/lib.rs (Op: opcode table  *)
(* and instruction lengths) and src/src/assembler.rs (Assembler: assemble  *)
(* and its passes).                                                        *)
(*                                                                         *)
(* A Rust panic (panic!, an integer division by zero, an array index out   *)
(* of bounds) unwinds out of the call: the state written so far stays, the *)
(* rest of the call is not executed, and nothing is returned.  The model   *)
(* records it in the variable panic and takes no further step.             *)
(*                                                                         *)
(* The trace strings (current_instruction_bin, instruction_log, the        *)
(* operand text of current_instruction) and the print switches carry no    *)
(* machine state; current_instruction is kept as the mnemonic alone.       *)
(***************************************************************************)
EXTENDS Integers, Sequences, FiniteSets, TLC

(***************************************************************************)
(* Bounds of the model.                                                    *)
(***************************************************************************)
\* load_program calls in one behaviour
MaxLoads == 1
\* cycle() calls made directly by the caller (the u16 counter NanoCore.cycle)
MaxCycle == 86
\* assemble calls on one Assembler instance
MaxAssembles == 2

(***************************************************************************)
(* Program constants.                                                      *)
(***************************************************************************)
MEMORY_SIZE == 256
NUM_REGISTERS == 16
MAX_CYCLES == 1024
FLAG_Z == 1
FLAG_C == 2
FLAG_N == 4
FLAG_Y == 8
STACK_MAX == 255
STACK_MIN == 234

Byte == 0 .. 255

(***************************************************************************)
(* u8 arithmetic of the Rust standard library, as the engine uses it.      *)
(* The overflowing_* operators return <<result, overflow flag>>.           *)
(***************************************************************************)
\* wrapping_add with a fault: the sum stops at 255
wrapping_add_Saturating(a, b) == IF a + b > 255 THEN 255 ELSE a + b

wrapping_add(a, b) == (a + b) % 256
wrapping_sub(a, b) == (a - b + 256) % 256

overflowing_add(a, b) == <<(a + b) % 256, a + b > 255>>
\* overflowing_sub with a fault: the borrow is not reported
overflowing_sub_NoBorrow(a, b) == <<(a - b + 256) % 256, FALSE>>
overflowing_sub(a, b) == <<(a - b + 256) % 256, a < b>>
overflowing_mul(a, b) == <<(a * b) % 256, a * b > 255>>
\* both panic when b = 0; the caller models that
overflowing_div(a, b) == <<a \div b, FALSE>>
overflowing_rem(a, b) == <<a % b, FALSE>>
\* the flag of overflowing_shl/shr tells whether the shift AMOUNT reached the
\* bit width (1 >= 8), not whether a bit was shifted out
overflowing_shl(a, n) == <<(a * (2 ^ (n % 8))) % 256, n >= 8>>
overflowing_shr(a, n) == <<a \div (2 ^ (n % 8)), n >= 8>>
rotate_left1(a) == ((a * 2) % 256) + (a \div 128)
rotate_right1(a) == (a \div 2) + ((a % 2) * 128)

Bit(v, i) == (v \div (2 ^ i)) % 2

RECURSIVE BitFold(_, _, _, _)
BitFold(f, a, b, i) ==
    IF i = 8 THEN 0
    ELSE (2 ^ i) * f[Bit(a, i) + 1][Bit(b, i) + 1] + BitFold(f, a, b, i + 1)

BitAnd(a, b) == BitFold(<<<<0, 0>>, <<0, 1>>>>, a, b, 0)
BitOr(a, b)  == BitFold(<<<<0, 1>>, <<1, 1>>>>, a, b, 0)
BitXor(a, b) == BitFold(<<<<0, 1>>, <<1, 0>>>>, a, b, 0)
BitNot(a) == 255 - a

(***************************************************************************)
(* ISA table (src/src/lib.rs).  Operations are named by their mnemonic.    *)
(* nanocore.rs also decodes and executes ROL and ROR, whose table rows are *)
(* not in lib.rs: their opcode bytes and length are taken from the         *)
(* specification (one byte each, a register operand, 2 bytes long).  The   *)
(* same holds for JMPR and CALLR, which the assembler and the integration  *)
(* tests use and whose engine arms are not in nanocore.rs.                 *)
(***************************************************************************)
OPCODE_ROL == 34
OPCODE_ROR == 35
OPCODE_JMPR == 37
OPCODE_CALLR == 38

OpExt == {"ROL", "ROR", "JMPR", "CALLR"}

Op ==
    { "HLT", "NOP", "LDI", "LDA", "LDR", "MOV", "STORE", "PUSH", "POP",
      "ADD", "ADDI", "SUB", "SUBI", "INC", "DEC", "AND", "OR", "XOR", "NOT",
      "CMP", "JMP", "JZ", "JNZ", "SHL", "SHR", "PRINT", "MUL", "MULI", "DIV",
      "DIVI", "MOD", "MODI", "CALL", "RET" } \cup OpExt

\* impl From<u8> for Op, rows 0x00 .. 0x21 in order
OpTable ==
    << "HLT", "NOP", "LDI", "LDA", "LDR", "MOV", "STORE", "PUSH", "POP",
       "ADD", "ADDI", "SUB", "SUBI", "INC", "DEC", "AND", "OR", "XOR", "NOT",
       "CMP", "SHL", "SHR", "JMP", "JZ", "JNZ", "PRINT", "MUL", "MULI", "DIV",
       "DIVI", "MOD", "MODI", "CALL", "RET" >>

OpExtFromU8(value) ==
    IF value = OPCODE_ROL THEN "ROL"
    ELSE IF value = OPCODE_ROR THEN "ROR"
    ELSE IF value = OPCODE_JMPR THEN "JMPR"
    ELSE IF value = OPCODE_CALLR THEN "CALLR"
    ELSE "NOP"

\* OpFromU8 with a fault: a byte without a row decodes to HLT
OpFromU8_NoFallback(value) ==
    IF value < Len(OpTable) THEN OpTable[value + 1]
    ELSE "HLT"

OpFromU8(value) ==
    IF value < Len(OpTable) THEN OpTable[value + 1]
    ELSE OpExtFromU8(value)

\* impl From<Op> for u8, one row per operation
OpCodes ==
    [ HLT |-> 0, NOP |-> 1, LDI |-> 2, LDA |-> 3, LDR |-> 4, MOV |-> 5,
      STORE |-> 6, PUSH |-> 7, POP |-> 8, ADD |-> 9, ADDI |-> 10, SUB |-> 11,
      SUBI |-> 12, INC |-> 13, DEC |-> 14, AND |-> 15, OR |-> 16, XOR |-> 17,
      NOT |-> 18, CMP |-> 19, SHL |-> 20, SHR |-> 21, JMP |-> 22, JZ |-> 23,
      JNZ |-> 24, PRINT |-> 25, MUL |-> 26, MULI |-> 27, DIV |-> 28,
      DIVI |-> 29, MOD |-> 30, MODI |-> 31, CALL |-> 32, RET |-> 33 ]

U8FromOpExt(op) ==
    IF op = "ROL" THEN OPCODE_ROL
    ELSE IF op = "ROR" THEN OPCODE_ROR
    ELSE IF op = "JMPR" THEN OPCODE_JMPR
    ELSE OPCODE_CALLR

\* the declaration order of enum Op
OpEnum ==
    << "HLT", "NOP", "LDI", "LDA", "LDR", "MOV", "STORE", "PUSH", "POP",
       "ADD", "ADDI", "SUB", "SUBI", "INC", "DEC", "AND", "OR", "XOR", "NOT",
       "CMP", "JMP", "JZ", "JNZ", "SHL", "SHR", "PRINT", "MUL", "MULI", "DIV",
       "DIVI", "MOD", "MODI", "CALL", "RET" >>

\* U8FromOp with a fault: the byte is the position in the enum declaration
U8FromOp_EnumOrder(op) ==
    IF op \in OpExt THEN U8FromOpExt(op)
    ELSE (CHOOSE i \in 1 .. Len(OpEnum) : OpEnum[i] = op) - 1

U8FromOp(op) ==
    IF op \in OpExt THEN U8FromOpExt(op)
    ELSE OpCodes[op]

\* impl From<Op> for &str, one row per operation
Mnemonics ==
    [ HLT |-> "HLT", NOP |-> "NOP", LDI |-> "LDI", LDA |-> "LDA",
      LDR |-> "LDR", MOV |-> "MOV", STORE |-> "STORE", PUSH |-> "PUSH",
      POP |-> "POP", ADD |-> "ADD", ADDI |-> "ADDI", SUB |-> "SUB",
      SUBI |-> "SUBI", INC |-> "INC", DEC |-> "DEC", AND |-> "AND",
      OR |-> "OR", XOR |-> "XOR", NOT |-> "NOT", CMP |-> "CMP", JMP |-> "JMP",
      JZ |-> "JZ", JNZ |-> "JNZ", SHL |-> "SHL", SHR |-> "SHR",
      PRINT |-> "PRINT", MUL |-> "MUL", MULI |-> "MULI", DIV |-> "DIV",
      DIVI |-> "DIVI", MOD |-> "MOD", MODI |-> "MODI", CALL |-> "CALL",
      RET |-> "RET" ]

\* the mnemonics of ROL, ROR, JMPR and CALLR, as the assembler tests write them
MnemonicsExt ==
    [ ROL |-> "ROL", ROR |-> "ROR", JMPR |-> "JMPR", CALLR |-> "CALLR" ]

StrFromOp(op) ==
    IF op \in OpExt THEN MnemonicsExt[op] ELSE Mnemonics[op]

\* impl From<&str> for Op: one row per mnemonic; any other token reaches
\* the arm  _ => panic!("Invalid operation: {value}")
PANIC_INVALID_OP == "Invalid operation"

OpsByName ==
    [ HLT |-> "HLT", NOP |-> "NOP", LDI |-> "LDI", LDA |-> "LDA",
      LDR |-> "LDR", MOV |-> "MOV", STORE |-> "STORE", PUSH |-> "PUSH",
      POP |-> "POP", ADD |-> "ADD", ADDI |-> "ADDI", SUB |-> "SUB",
      SUBI |-> "SUBI", INC |-> "INC", DEC |-> "DEC", AND |-> "AND",
      OR |-> "OR", XOR |-> "XOR", NOT |-> "NOT", CMP |-> "CMP", JMP |-> "JMP",
      JZ |-> "JZ", JNZ |-> "JNZ", SHL |-> "SHL", SHR |-> "SHR",
      PRINT |-> "PRINT", MUL |-> "MUL", MULI |-> "MULI", DIV |-> "DIV",
      DIVI |-> "DIVI", MOD |-> "MOD", MODI |-> "MODI", CALL |-> "CALL",
      RET |-> "RET" ]

OpsByNameExt ==
    [ ROL |-> "ROL", ROR |-> "ROR", JMPR |-> "JMPR", CALLR |-> "CALLR" ]

\* the outcome is <<"Op", op>> or <<"panic", message>>
OpFromStr(value) ==
    IF value \in DOMAIN OpsByName THEN <<"Op", OpsByName[value]>>
    ELSE IF value \in DOMAIN OpsByNameExt THEN <<"Op", OpsByNameExt[value]>>
    ELSE <<"panic", PANIC_INVALID_OP>>

instruction_len_ext(op) == 2

instruction_len(op) ==
    IF op \in {"LDI", "LDA", "STORE", "ADDI", "SUBI", "MULI", "DIVI", "MODI"}
    THEN 3
    ELSE IF op \in {"LDR", "MOV", "PUSH", "POP", "ADD", "SUB", "INC", "DEC"}
    THEN 2
    ELSE IF op \in {"AND", "OR", "XOR", "NOT", "CMP", "SHL", "SHR"}
    THEN 2
    ELSE IF op \in {"JMP", "JZ", "JNZ", "PRINT"}
    THEN 2
    ELSE IF op \in {"MUL", "DIV", "MOD", "CALL"}
    THEN 2
    ELSE IF op \in OpExt
    THEN instruction_len_ext(op)
    ELSE 1

(***************************************************************************)
(* CPU flags (src/src/cpu.rs).  flags is the u8 bit field.                 *)
(***************************************************************************)
get_flag(flags, bit) == (flags \div bit) % 2 = 1
set_flag(flags, bit) == IF get_flag(flags, bit) THEN flags ELSE flags + bit
clear_flag(flags, bit) == IF get_flag(flags, bit) THEN flags - bit ELSE flags

\* update_zn_flags with a fault: Z is set on a zero result, never cleared
update_zn_flags_StickyZ(flags, result) ==
    LET z == IF result = 0 THEN set_flag(flags, FLAG_Z) ELSE flags
    IN  IF BitAnd(result, 128) = 0 THEN clear_flag(z, FLAG_N)
        ELSE set_flag(z, FLAG_N)

update_zn_flags(flags, result) ==
    LET z == IF result = 0 THEN set_flag(flags, FLAG_Z)
             ELSE clear_flag(flags, FLAG_Z)
    IN  IF BitAnd(result, 128) = 0 THEN clear_flag(z, FLAG_N)
        ELSE set_flag(z, FLAG_N)

set_carry(flags, carry) ==
    IF carry THEN set_flag(flags, FLAG_C) ELSE clear_flag(flags, FLAG_C)

(***************************************************************************)
(* Machine state.  NanoCore holds cpu (CPU: registers, pc, sp, memory,     *)
(* flags, is_halted), cycle, current_instruction, current_skipped, output. *)
(* The engine functions below take the whole machine as a record m and     *)
(* return the machine after the call; the field panic is "" until a call   *)
(* panics, then it names the panic.                                        *)
(***************************************************************************)
VARIABLES registers, pc, sp, memory, flags, is_halted, cycle,
          current_instruction, current_skipped, output,
          panic,      \* "" or the panic that ended the last call
          call,       \* the public function called last
          fetched,    \* what the last cycle() fetched and decoded
          loaded,     \* the arguments of the last load_program call
          loads,      \* load_program calls so far
          running,    \* a run() call is in progress
          run_cycles, \* cycles executed by the run() in progress or last ended
          conv,       \* the last conversion of the ISA table: fn, input, output
          frames,     \* the pushes and calls whose stack slot is intact
          assembler,  \* the Assembler instance: asm, labels, constants, program
          assembled,  \* what the last assemble call returned
          assembles   \* assemble calls on the instance so far

vars == << registers, pc, sp, memory, flags, is_halted, cycle,
           current_instruction, current_skipped, output,
           panic, call, fetched, loaded, loads, running, run_cycles, conv,
           frames, assembler, assembled, assembles >>

Machine ==
    [ registers |-> registers, pc |-> pc, sp |-> sp, memory |-> memory,
      flags |-> flags, is_halted |-> is_halted, cycle |-> cycle,
      current_instruction |-> current_instruction,
      current_skipped |-> current_skipped, output |-> output,
      panic |-> panic ]

\* CPU::new and NanoCore::new
NewMachine ==
    [ registers |-> [r \in 0 .. NUM_REGISTERS - 1 |-> 0],
      pc |-> 0, sp |-> 255,
      memory |-> [a \in 0 .. MEMORY_SIZE - 1 |-> 0],
      flags |-> 0, is_halted |-> FALSE, cycle |-> 0,
      current_instruction |-> "", current_skipped |-> FALSE,
      output |-> << >>, panic |-> "" ]

PANIC_DIV == "attempt to divide by zero"
PANIC_REM == "attempt to calculate the remainder with a divisor of zero"
PANIC_INDEX == "index out of bounds"
PANIC_OVERFLOW == "Error: Stack Overflow"
PANIC_UNDERFLOW == "Error: Stack Underflow"
PANIC_TOO_LARGE == "Error: Program exceeds 256-byte memory limit!"

Panic(m, msg) == [m EXCEPT !.panic = msg]

(***************************************************************************)
(* NanoCore::load_program                                                  *)
(***************************************************************************)
\* load_program with a fault: the stack pointer is reset with the program
load_program_ResetsSp(m, program, start_address) ==
    IF start_address + Len(program) > 256
    THEN Panic(m, PANIC_TOO_LARGE)
    ELSE [m EXCEPT
            !.memory = [a \in 0 .. MEMORY_SIZE - 1 |->
                LET i == wrapping_sub(a, start_address)
                IN  IF i < Len(program) THEN program[i + 1] ELSE m.memory[a]],
            !.pc = start_address,
            !.sp = STACK_MAX]

\* load_program with a fault: the bytes are copied to address 0 onwards
load_program_IgnoresStart(m, program, start_address) ==
    IF start_address + Len(program) > 256
    THEN Panic(m, PANIC_TOO_LARGE)
    ELSE [m EXCEPT
            !.memory = [a \in 0 .. MEMORY_SIZE - 1 |->
                IF a < Len(program) THEN program[a + 1] ELSE m.memory[a]],
            !.pc = start_address]

load_program(m, program, start_address) ==
    IF start_address + Len(program) > 256
    THEN Panic(m, PANIC_TOO_LARGE)
    ELSE [m EXCEPT
            \* memory[start_address.wrapping_add(i)] = program[i], every i
            !.memory = [a \in 0 .. MEMORY_SIZE - 1 |->
                LET i == wrapping_sub(a, start_address)
                IN  IF i < Len(program) THEN program[i + 1] ELSE m.memory[a]],
            !.pc = start_address]

(***************************************************************************)
(* NanoCore::fetch_decode                                                  *)
(***************************************************************************)
Operands(kind, a, b) == [kind |-> kind, a |-> a, b |-> b]

fetch_decode(m) ==
    LET opcode == m.memory[m.pc]
        byte_2 == m.memory[wrapping_add(m.pc, 1)]
        byte_3 == m.memory[wrapping_add(m.pc, 2)]
        op == OpFromU8(opcode)
        operands ==
            IF op \in {"HLT", "NOP", "RET"}
            THEN Operands("None", 0, 0)
            ELSE IF op \in {"LDI", "ADDI", "SUBI", "MULI", "DIVI", "MODI"}
            THEN Operands("RegImm", byte_2, byte_3)
            ELSE IF op \in {"LDA", "STORE"}
            THEN Operands("RegAddr", byte_2, byte_3)
            ELSE IF op \in {"PUSH", "POP", "INC", "DEC", "NOT", "SHL", "SHR",
                            "ROL", "ROR", "PRINT"}
            THEN Operands("Reg", byte_2, 0)
            \* the operand shape the assembler emits for JMPR and CALLR
            ELSE IF op \in {"JMPR", "CALLR"}
            THEN Operands("Reg", byte_2, 0)
            ELSE IF op \in {"LDR", "MOV", "ADD", "SUB", "AND", "OR", "XOR",
                            "CMP", "MUL", "DIV", "MOD"}
            THEN Operands("RegReg", BitAnd(byte_2 \div 16, 15),
                          BitAnd(byte_2, 15))
            ELSE Operands("Addr", byte_2, 0)
    IN  [op |-> op, operands |-> operands]

(***************************************************************************)
(* NanoCore::execute.  Each operator is one arm of the match; the result   *)
(* is the machine after the arm and the pc_override flag.  registers[reg]  *)
(* with reg >= 16 is an index out of bounds: the arm panics at its first   *)
(* access to the register file.                                            *)
(***************************************************************************)
Done(m) == [m |-> m, pc_override |-> FALSE]
Jump(m) == [m |-> m, pc_override |-> TRUE]
InRegisters(reg) == reg < NUM_REGISTERS

\* registers[reg] = value; update_zn_flags(value); current_instruction = ..
WriteReg(m, op, reg, value) ==
    [m EXCEPT !.registers[reg] = value,
              !.flags = update_zn_flags(m.flags, value),
              !.current_instruction = op]

exec_HLT(m, op) == Done([m EXCEPT !.is_halted = TRUE, !.current_instruction = op])

exec_NOP(m, op) == Done([m EXCEPT !.current_instruction = op])

exec_LDI(m, op, reg, value) ==
    IF ~InRegisters(reg) THEN Done(Panic(m, PANIC_INDEX))
    ELSE Done(WriteReg(m, op, reg, value))

exec_LDA(m, op, reg, addr) ==
    IF ~InRegisters(reg) THEN Done(Panic(m, PANIC_INDEX))
    ELSE Done(WriteReg(m, op, reg, m.memory[addr]))

\* exec_STORE with a fault: the addresses below 16 are write-protected
exec_STORE_ProtectsLow(m, op, reg, addr) ==
    IF ~InRegisters(reg) THEN Done(Panic(m, PANIC_INDEX))
    ELSE LET value == m.registers[reg]
         IN  Done([m EXCEPT !.memory[addr] = IF addr < 16 THEN @ ELSE value,
                            !.flags = update_zn_flags(m.flags, value),
                            !.current_instruction = op])

exec_STORE(m, op, reg, addr) ==
    IF ~InRegisters(reg) THEN Done(Panic(m, PANIC_INDEX))
    ELSE LET value == m.registers[reg]
         IN  Done([m EXCEPT !.memory[addr] = value,
                            !.flags = update_zn_flags(m.flags, value),
                            !.current_instruction = op])

exec_LDR(m, op, rd, rs) ==
    LET addr == m.registers[rs]
    IN  Done(WriteReg(m, op, rd, m.memory[addr]))

exec_MOV(m, op, rd, rs) == Done(WriteReg(m, op, rd, m.registers[rs]))

\* exec_PUSH with a fault: the stack bound is not checked
exec_PUSH_Unchecked(m, op, reg) ==
    IF ~InRegisters(reg) THEN Done(Panic(m, PANIC_INDEX))
    ELSE LET value == m.registers[reg]
         IN  Done([m EXCEPT !.memory[m.sp] = value,
                            !.sp = wrapping_sub(m.sp, 1),
                            !.flags = update_zn_flags(m.flags, value),
                            !.current_instruction = op])

exec_PUSH(m, op, reg) ==
    IF m.sp = STACK_MIN THEN Done(Panic(m, PANIC_OVERFLOW))
    ELSE IF ~InRegisters(reg) THEN Done(Panic(m, PANIC_INDEX))
    ELSE LET value == m.registers[reg]
         IN  Done([m EXCEPT !.memory[m.sp] = value,
                            !.sp = wrapping_sub(m.sp, 1),
                            !.flags = update_zn_flags(m.flags, value),
                            !.current_instruction = op])

\* exec_POP with a fault: the value is read from memory[sp] before sp moves
exec_POP_ReadsBelow(m, op, reg) ==
    IF m.sp = STACK_MAX THEN Done(Panic(m, PANIC_UNDERFLOW))
    ELSE LET sp1 == wrapping_add(m.sp, 1)
             value == m.memory[m.sp]
             m1 == [m EXCEPT !.sp = sp1]
         IN  IF ~InRegisters(reg) THEN Done(Panic(m1, PANIC_INDEX))
             ELSE Done(WriteReg(m1, op, reg, value))

\* exec_POP with a fault: the flags are left as they were
exec_POP_KeepsFlags(m, op, reg) ==
    IF m.sp = STACK_MAX THEN Done(Panic(m, PANIC_UNDERFLOW))
    ELSE LET sp1 == wrapping_add(m.sp, 1)
             value == m.memory[sp1]
             m1 == [m EXCEPT !.sp = sp1]
         IN  IF ~InRegisters(reg) THEN Done(Panic(m1, PANIC_INDEX))
             ELSE Done([m1 EXCEPT !.registers[reg] = value,
                                  !.current_instruction = op])

exec_POP(m, op, reg) ==
    IF m.sp = STACK_MAX THEN Done(Panic(m, PANIC_UNDERFLOW))
    ELSE LET sp1 == wrapping_add(m.sp, 1)
             value == m.memory[sp1]
             m1 == [m EXCEPT !.sp = sp1]
         IN  IF ~InRegisters(reg) THEN Done(Panic(m1, PANIC_INDEX))
             ELSE Done(WriteReg(m1, op, reg, value))

exec_INC_DEC(m, op, reg) ==
    IF ~InRegisters(reg) THEN Done(Panic(m, PANIC_INDEX))
    ELSE LET value == IF op = "INC" THEN wrapping_add(m.registers[reg], 1)
                      ELSE wrapping_sub(m.registers[reg], 1)
         IN  Done(WriteReg(m, op, reg, value))

\* the (result, carry) match of the ADD.. and ADDI.. arms
Arith(op, v1, v2) ==
    IF op \in {"ADD", "ADDI"} THEN overflowing_add(v1, v2)
    ELSE IF op \in {"SUB", "SUBI"} THEN overflowing_sub(v1, v2)
    ELSE IF op \in {"MUL", "MULI"} THEN overflowing_mul(v1, v2)
    ELSE IF op \in {"DIV", "DIVI"} THEN overflowing_div(v1, v2)
    ELSE overflowing_rem(v1, v2)

ArithPanics(op, v2) ==
    IF v2 # 0 THEN ""
    ELSE IF op \in {"DIV", "DIVI"} THEN PANIC_DIV
    ELSE IF op \in {"MOD", "MODI"} THEN PANIC_REM
    ELSE ""

exec_Arith(m, op, rd, v1, v2) ==
    IF ArithPanics(op, v2) # "" THEN Done(Panic(m, ArithPanics(op, v2)))
    ELSE LET rc == Arith(op, v1, v2)
             m1 == WriteReg(m, op, rd, rc[1])
         IN  Done([m1 EXCEPT !.flags = set_carry(m1.flags, rc[2])])

exec_ADD_MOD(m, op, rd, rs) ==
    exec_Arith(m, op, rd, m.registers[rd], m.registers[rs])

exec_ADDI_MODI(m, op, reg, v2) ==
    IF ~InRegisters(reg) THEN Done(Panic(m, PANIC_INDEX))
    ELSE exec_Arith(m, op, reg, m.registers[reg], v2)

exec_Logic(m, op, rd, rs) ==
    LET v1 == m.registers[rs]
        v2 == m.registers[rd]
        result == IF op = "AND" THEN BitAnd(v1, v2)
                  ELSE IF op = "OR" THEN BitOr(v1, v2)
                  ELSE IF op = "XOR" THEN BitXor(v1, v2)
                  ELSE IF v1 = v2 THEN 0
                  ELSE IF v1 > v2 THEN 1
                  ELSE 2
    IN  Done(WriteReg(m, op, rd, result))

exec_NOT(m, op, reg) ==
    IF ~InRegisters(reg) THEN Done(Panic(m, PANIC_INDEX))
    ELSE Done(WriteReg(m, op, reg, BitNot(m.registers[reg])))

exec_JMP(m, op, a) == Jump([m EXCEPT !.pc = a, !.current_instruction = op])

\* exec_JZ_JNZ with a fault: the condition reads the N flag
exec_JZ_JNZ_TestsN(m, op, a) ==
    LET m1 == [m EXCEPT !.current_instruction = op]
    IN  IF get_flag(m.flags, FLAG_N) = (op = "JZ")
        THEN Jump([m1 EXCEPT !.pc = a])
        ELSE Done([m1 EXCEPT !.current_skipped = TRUE])

exec_JZ_JNZ(m, op, a) ==
    LET m1 == [m EXCEPT !.current_instruction = op]
    IN  IF get_flag(m.flags, FLAG_Z) = (op = "JZ")
        THEN Jump([m1 EXCEPT !.pc = a])
        ELSE Done([m1 EXCEPT !.current_skipped = TRUE])

\* exec_PRINT with a fault: the output is replaced, not appended to
exec_PRINT_Overwrites(m, op, reg) ==
    IF ~InRegisters(reg) THEN Done(Panic(m, PANIC_INDEX))
    ELSE Done([m EXCEPT !.current_instruction = op,
                        !.output = <<m.registers[reg]>>])

exec_PRINT(m, op, reg) ==
    IF ~InRegisters(reg) THEN Done(Panic(m, PANIC_INDEX))
    ELSE Done([m EXCEPT !.current_instruction = op,
                        !.output = Append(m.output, m.registers[reg])])

\* the (result, carry) match of the SHL | SHR | ROL | ROR arm
Shift(op, value) ==
    IF op = "SHL" THEN overflowing_shl(value, 1)
    ELSE IF op = "SHR" THEN overflowing_shr(value, 1)
    ELSE IF op = "ROL" THEN <<rotate_left1(value), BitAnd(value, 128) # 0>>
    ELSE <<rotate_right1(value), BitAnd(value, 1) # 0>>

exec_Shift(m, op, reg) ==
    IF ~InRegisters(reg) THEN Done(Panic(m, PANIC_INDEX))
    ELSE LET rc == Shift(op, m.registers[reg])
             m1 == WriteReg(m, op, reg, rc[1])
         IN  Done([m1 EXCEPT !.flags = set_carry(m1.flags, rc[2])])

\* exec_CALL with a fault: the address pushed is that of the CALL itself
exec_CALL_PushesOwnAddress(m, op, a) ==
    IF m.sp = STACK_MIN THEN Done(Panic(m, PANIC_OVERFLOW))
    ELSE Jump([m EXCEPT !.memory[m.sp] = m.pc,
                        !.sp = wrapping_sub(m.sp, 1),
                        !.pc = a,
                        !.current_instruction = op])

exec_CALL(m, op, a) ==
    IF m.sp = STACK_MIN THEN Done(Panic(m, PANIC_OVERFLOW))
    ELSE Jump([m EXCEPT !.memory[m.sp] = wrapping_add(m.pc, 2),
                        !.sp = wrapping_sub(m.sp, 1),
                        !.pc = a,
                        !.current_instruction = op])

\* exec_RET with a fault: pc is read from memory[sp] before sp is incremented
exec_RET_ReadsBelow(m, op) ==
    IF m.sp = STACK_MAX THEN Done(Panic(m, PANIC_UNDERFLOW))
    ELSE Jump([m EXCEPT !.sp = wrapping_add(m.sp, 1), !.pc = m.memory[m.sp],
                        !.current_instruction = op])

exec_RET(m, op) ==
    IF m.sp = STACK_MAX THEN Done(Panic(m, PANIC_UNDERFLOW))
    ELSE LET sp1 == wrapping_add(m.sp, 1)
         IN  Jump([m EXCEPT !.sp = sp1, !.pc = m.memory[sp1],
                            !.current_instruction = op])

\* JMPR Rx: pc = registers[Rx]
exec_JMPR(m, op, reg) ==
    IF ~InRegisters(reg) THEN Done(Panic(m, PANIC_INDEX))
    ELSE Jump([m EXCEPT !.pc = m.registers[reg], !.current_instruction = op])

\* CALLR Rx: push the address after the CALLR as CALL does, pc = registers[Rx]
exec_CALLR(m, op, reg) ==
    IF m.sp = STACK_MIN THEN Done(Panic(m, PANIC_OVERFLOW))
    ELSE IF ~InRegisters(reg) THEN Done(Panic(m, PANIC_INDEX))
    ELSE Jump([m EXCEPT !.memory[m.sp] =
                            wrapping_add(m.pc, instruction_len_ext(op)),
                        !.sp = wrapping_sub(m.sp, 1),
                        !.pc = m.registers[reg],
                        !.current_instruction = op])

execute(m0, op, operands) ==
    LET m == [m0 EXCEPT !.current_skipped = FALSE]
        a == operands.a
        b == operands.b
    IN  CASE op = "HLT" -> exec_HLT(m, op)
          [] op = "NOP" -> exec_NOP(m, op)
          [] op = "LDI" -> exec_LDI(m, op, a, b)
          [] op = "LDA" -> exec_LDA(m, op, a, b)
          [] op = "STORE" -> exec_STORE(m, op, a, b)
          [] op = "LDR" -> exec_LDR(m, op, a, b)
          [] op = "MOV" -> exec_MOV(m, op, a, b)
          [] op = "PUSH" -> exec_PUSH(m, op, a)
          [] op = "POP" -> exec_POP(m, op, a)
          [] op \in {"INC", "DEC"} -> exec_INC_DEC(m, op, a)
          [] op \in {"ADD", "SUB", "MUL", "DIV", "MOD"} ->
                exec_ADD_MOD(m, op, a, b)
          [] op \in {"ADDI", "SUBI", "MULI", "DIVI", "MODI"} ->
                exec_ADDI_MODI(m, op, a, b)
          [] op \in {"AND", "OR", "XOR", "CMP"} -> exec_Logic(m, op, a, b)
          [] op = "NOT" -> exec_NOT(m, op, a)
          [] op = "JMP" -> exec_JMP(m, op, a)
          [] op \in {"JZ", "JNZ"} -> exec_JZ_JNZ(m, op, a)
          [] op = "PRINT" -> exec_PRINT(m, op, a)
          [] op \in {"SHL", "SHR", "ROL", "ROR"} -> exec_Shift(m, op, a)
          [] op = "CALL" -> exec_CALL(m, op, a)
          [] op = "RET" -> exec_RET(m, op)
          [] op = "JMPR" -> exec_JMPR(m, op, a)
          [] op = "CALLR" -> exec_CALLR(m, op, a)

(***************************************************************************)
(* NanoCore::cycle                                                         *)
(***************************************************************************)
\* Cycle with a fault: the instruction length is added after a jump too
Cycle_NoOverride(m) ==
    LET fd == fetch_decode(m)
        ex == execute(m, fd.op, fd.operands)
        m1 == ex.m
    IN  IF m1.panic # "" THEN m1
        ELSE IF m1.is_halted THEN m1
        ELSE [m1 EXCEPT !.pc = wrapping_add(m1.pc, instruction_len(fd.op)),
                        !.cycle = m1.cycle + 1]

Cycle(m) ==
    LET fd == fetch_decode(m)
        ex == execute(m, fd.op, fd.operands)
        m1 == ex.m
    IN  IF m1.panic # "" THEN m1
        ELSE IF m1.is_halted THEN m1
        ELSE LET m2 == IF ex.pc_override THEN m1
                       ELSE [m1 EXCEPT !.pc = wrapping_add(m1.pc, instruction_len(fd.op))]
             IN  [m2 EXCEPT !.cycle = m2.cycle + 1]

(***************************************************************************)
(* NanoCore::run, one loop iteration at a time: RunBegin enters the while  *)
(* loop, RunIter is one iteration that reaches self.cycle(), RunExit is    *)
(* the loop ending (is_halted, or the MAX_CYCLES break).                   *)
(***************************************************************************)
\* RunContinues with a fault: the MAX_CYCLES break is missing
RunContinues_NoBound(m) == ~m.is_halted

RunContinues(m) == ~m.is_halted /\ ~(m.cycle >= MAX_CYCLES)

(***************************************************************************)
(* Text, as the assembler reads it (src/src/assembler.rs).  A source line  *)
(* and a token are strings; the functions of str the assembler calls are   *)
(* written out character by character.                                     *)
(***************************************************************************)
CharAt(s, i) == SubSeq(s, i, i)

\* char::is_whitespace, for the characters a source line holds
is_whitespace(c) == c \in {" ", "\t"}

starts_with(s, prefix) ==
    Len(s) >= Len(prefix) /\ SubSeq(s, 1, Len(prefix)) = prefix

ends_with(s, suffix) ==
    Len(s) >= Len(suffix)
        /\ SubSeq(s, Len(s) - Len(suffix) + 1, Len(s)) = suffix

\* Some(rest) is <<rest>>, None is << >>
strip_prefix(s, prefix) ==
    IF starts_with(s, prefix) THEN <<SubSeq(s, Len(prefix) + 1, Len(s))>>
    ELSE << >>

RECURSIVE trim_start(_)
trim_start(s) ==
    IF Len(s) > 0 /\ is_whitespace(CharAt(s, 1))
    THEN trim_start(SubSeq(s, 2, Len(s)))
    ELSE s

RECURSIVE trim_end(_)
trim_end(s) ==
    IF Len(s) > 0 /\ is_whitespace(CharAt(s, Len(s)))
    THEN trim_end(SubSeq(s, 1, Len(s) - 1))
    ELSE s

trim(s) == trim_end(trim_start(s))

RECURSIVE trim_end_matches(_, _)
trim_end_matches(s, c) ==
    IF Len(s) > 0 /\ CharAt(s, Len(s)) = c
    THEN trim_end_matches(SubSeq(s, 1, Len(s) - 1), c)
    ELSE s

\* str::find and str::rfind of a character: the 0-based index, or -1 for None
find(s, c) ==
    IF \E i \in 1 .. Len(s) : CharAt(s, i) = c
    THEN (CHOOSE i \in 1 .. Len(s) :
              /\ CharAt(s, i) = c
              /\ \A j \in 1 .. i - 1 : CharAt(s, j) # c) - 1
    ELSE -1

rfind(s, c) ==
    IF \E i \in 1 .. Len(s) : CharAt(s, i) = c
    THEN (CHOOSE i \in 1 .. Len(s) :
              /\ CharAt(s, i) = c
              /\ \A j \in i + 1 .. Len(s) : CharAt(s, j) # c) - 1
    ELSE -1

\* str::split_whitespace, collected: the maximal runs of other characters
RECURSIVE split_whitespace(_)
split_whitespace(s) ==
    LET t == trim_start(s)
        n == IF \E i \in 1 .. Len(t) : is_whitespace(CharAt(t, i))
             THEN (CHOOSE i \in 1 .. Len(t) :
                       /\ is_whitespace(CharAt(t, i))
                       /\ \A j \in 1 .. i - 1 : ~is_whitespace(CharAt(t, j))) - 1
             ELSE Len(t)
    IN  IF Len(t) = 0 THEN << >>
        ELSE <<SubSeq(t, 1, n)>> \o split_whitespace(SubSeq(t, n + 1, Len(t)))

\* str::bytes of the letters, the digits and the space, by their ASCII ranges
UpperLetters == "ABCDEFGHIJKLMNOPQRSTUVWXYZ"
LowerLetters == "abcdefghijklmnopqrstuvwxyz"
DecimalDigits == "0123456789"

IndexIn(s, c) == CHOOSE i \in 1 .. Len(s) : CharAt(s, i) = c
Occurs(s, c) == \E i \in 1 .. Len(s) : CharAt(s, i) = c

ByteOf(c) ==
    IF Occurs(UpperLetters, c) THEN 64 + IndexIn(UpperLetters, c)
    ELSE IF Occurs(LowerLetters, c) THEN 96 + IndexIn(LowerLetters, c)
    ELSE IF Occurs(DecimalDigits, c) THEN 47 + IndexIn(DecimalDigits, c)
    ELSE 32

RECURSIVE bytes(_)
bytes(s) ==
    IF Len(s) = 0 THEN << >>
    ELSE <<ByteOf(CharAt(s, 1))>> \o bytes(SubSeq(s, 2, Len(s)))

DigitOf(c) == IndexIn(DecimalDigits, c) - 1

is_digit(c) == Occurs(DecimalDigits, c)

\* str::parse::<u8>: an optional + sign, then one or more decimal digits
\* whose value fits a u8.  Ok(n) is <<n>>, an Err is << >>.
RECURSIVE parse_digits(_, _)
parse_digits(s, acc) ==
    IF Len(s) = 0 THEN <<acc>>
    ELSE IF ~is_digit(CharAt(s, 1)) THEN << >>
    ELSE LET n == acc * 10 + DigitOf(CharAt(s, 1))
         IN  IF n > 255 THEN << >>
             ELSE parse_digits(SubSeq(s, 2, Len(s)), n)

parse_u8(s) ==
    LET digits == IF Len(s) > 1 /\ CharAt(s, 1) = "+"
                  THEN SubSeq(s, 2, Len(s)) ELSE s
    IN  IF Len(digits) = 0 THEN << >> ELSE parse_digits(digits, 0)

\* hex::decode: an even number of hexadecimal digits of either case, two
\* per byte.  Ok(bytes) is <<bytes>>, an Err is << >>.
HexDigits == "0123456789abcdef"
HexDigitsUpper == "0123456789ABCDEF"

is_hex_digit(c) == Occurs(HexDigits, c) \/ Occurs(HexDigitsUpper, c)

HexOf(c) ==
    IF Occurs(HexDigits, c) THEN IndexIn(HexDigits, c) - 1
    ELSE IndexIn(HexDigitsUpper, c) - 1

RECURSIVE hex_pairs(_)
hex_pairs(s) ==
    IF Len(s) = 0 THEN << >>
    ELSE <<HexOf(CharAt(s, 1)) * 16 + HexOf(CharAt(s, 2))>>
             \o hex_pairs(SubSeq(s, 3, Len(s)))

hex_decode(s) ==
    IF Len(s) % 2 # 0 THEN << >>
    ELSE IF \E i \in 1 .. Len(s) : ~is_hex_digit(CharAt(s, i)) THEN << >>
    ELSE <<hex_pairs(s)>>

(***************************************************************************)
(* The assembler (src/src/assembler.rs).  An Assembler is the record of    *)
(* its fields: asm (the source, one string per line of asm.lines()),       *)
(* labels and constants (the HashMaps, as functions of the keys they       *)
(* hold), program (the Vec<u8>).  A function that returns a Result gives   *)
(* <<"Ok", value>> or <<"Err", error>>, error an AssemblerError            *)
(* (src/src/error.rs); a call that panics gives <<"panic", message>>.      *)
(* Line numbers are line_idx + 1, the positions in asm.                    *)
(***************************************************************************)
Ok(value) == <<"Ok", value>>
Fail(error) == <<"Err", error>>
Panicked(message) == <<"panic", message>>
is_ok(result) == result[1] = "Ok"

SyntaxError(line, message) ==
    [kind |-> "SyntaxError", line |-> line, detail |-> message]
InvalidRegister(line, name) ==
    [kind |-> "InvalidRegister", line |-> line, detail |-> name]
InvalidValue(line, value) ==
    [kind |-> "InvalidValue", line |-> line, detail |-> value]
InvalidHexAddress(line, value) ==
    [kind |-> "InvalidHexAddress", line |-> line, detail |-> value]

EmptyMap == [k \in {} |-> 0]
Insert(map, key, value) ==
    [k \in DOMAIN map \cup {key} |-> IF k = key THEN value ELSE map[k]]

\* Assembler::default()
NewAssembler ==
    [asm |-> << >>, labels |-> EmptyMap, constants |-> EmptyMap,
     program |-> << >>]

is_label(l) == ends_with(l, ":")
is_constant(l) == starts_with(l, ".CONST")

from_value_str(v, line) ==
    LET parsed == parse_u8(v)
    IN  IF Len(parsed) = 0 THEN Fail(InvalidValue(line, v))
        ELSE Ok(parsed[1])

from_hex_str(v, line) ==
    LET stripped == strip_prefix(v, "0x")
        decoded == hex_decode(IF Len(stripped) = 0 THEN v ELSE stripped[1])
    IN  IF Len(decoded) = 0 THEN Fail(InvalidHexAddress(line, v))
        ELSE IF Len(decoded[1]) = 0 THEN Fail(InvalidValue(line, v))
        ELSE Ok(decoded[1][1])

\* register with a fault: the bound of the 8-register machine
register_Bound7(r, line) ==
    LET stripped == strip_prefix(r, "R")
        parsed == IF Len(stripped) = 0 THEN << >> ELSE parse_u8(stripped[1])
    IN  IF Len(parsed) = 0 THEN Fail(InvalidRegister(line, r))
        ELSE IF parsed[1] > 7 THEN Fail(InvalidRegister(line, r))
        ELSE Ok(parsed[1])

register(r, line) ==
    LET stripped == strip_prefix(r, "R")
        parsed == IF Len(stripped) = 0 THEN << >> ELSE parse_u8(stripped[1])
    IN  IF Len(parsed) = 0 THEN Fail(InvalidRegister(line, r))
        ELSE IF parsed[1] > 15 THEN Fail(InvalidRegister(line, r))
        ELSE Ok(parsed[1])

resolve_number(a, v, line) ==
    IF v \in DOMAIN a.constants THEN Ok(a.constants[v])
    ELSE IF starts_with(v, "0x") THEN from_hex_str(v, line)
    ELSE from_value_str(v, line)

\* let line = line.trim(); then the comment is stripped
strip_comment(raw) ==
    LET line == trim(raw)
        idx == find(line, ";")
    IN  IF idx >= 0 THEN trim(SubSeq(line, 1, idx)) ELSE line

QUOTE == "\""
PANIC_SUB_OVERFLOW == "attempt to subtract with overflow"
PANIC_SLICE == "slice index starts after its end"

\* the value of a .CONST line: hexadecimal after 0x, decimal otherwise
\* constant_value with a fault: every value is read as hexadecimal
constant_value_AlwaysHex(v, line) == from_hex_str(v, line)

constant_value(v, line) ==
    IF starts_with(v, "0x") THEN from_hex_str(v, line)
    ELSE from_value_str(v, line)

\* Assembler::map_constants, from line i on
RECURSIVE map_constants_from(_, _)
map_constants_from(a, i) ==
    IF i > Len(a.asm) THEN [a |-> a, result |-> Ok(<< >>)]
    ELSE LET line == strip_comment(a.asm[i])
             parts == split_whitespace(line)
             value == constant_value(parts[3], i)
         IN  IF ~is_constant(line) THEN map_constants_from(a, i + 1)
             ELSE IF Len(parts) < 3
             THEN [a |-> a,
                   result |-> Fail(SyntaxError(i, "Invalid constant definition"))]
             ELSE IF ~is_ok(value) THEN [a |-> a, result |-> value]
             ELSE map_constants_from(
                      [a EXCEPT !.constants = Insert(@, parts[2], value[2])],
                      i + 1)

\* map_constants with a fault: the pass ends at the first line of code, so
\* only the constants defined above the code are known
RECURSIVE CodeStart(_, _)
CodeStart(asm, i) ==
    IF i > Len(asm) THEN i
    ELSE IF Len(strip_comment(asm[i])) = 0 \/ is_constant(strip_comment(asm[i]))
    THEN CodeStart(asm, i + 1)
    ELSE i

map_constants_UntilCode(a) ==
    LET head == CodeStart(a.asm, 1) - 1
        done == map_constants_from([a EXCEPT !.asm = SubSeq(@, 1, head)], 1)
    IN  [a |-> [done.a EXCEPT !.asm = a.asm], result |-> done.result]

map_constants(a) == map_constants_from(a, 1)

\* Assembler::map_labels, from line i on with the address counter at addr
RECURSIVE map_labels_from(_, _, _)
map_labels_from(a, i, addr) ==
    IF i > Len(a.asm) THEN [a |-> a, result |-> Ok(<< >>)]
    ELSE LET line == strip_comment(a.asm[i])
             parts == split_whitespace(line)
             start == find(line, QUOTE) + 1
             end == rfind(line, QUOTE)
             op == OpFromStr(parts[1])
         IN  IF Len(line) = 0 \/ is_constant(line)
             THEN map_labels_from(a, i + 1, addr)
             ELSE IF starts_with(line, ".DB")
             THEN map_labels_from(a, i + 1,
                                  (addr + (Len(parts) - 1)) % 256)
             ELSE IF starts_with(line, ".STRING")
             THEN IF start = 0
                  THEN [a |-> a,
                        result |-> Fail(SyntaxError(i, "Expected start of string"))]
                  \* one quote alone: end - start overflows the usize
                  ELSE IF end < start
                  THEN [a |-> a, result |-> Panicked(PANIC_SUB_OVERFLOW)]
                  ELSE map_labels_from(a, i + 1, (addr + (end - start)) % 256)
             ELSE IF is_label(line)
             THEN map_labels_from(
                      [a EXCEPT !.labels =
                           Insert(@, trim_end_matches(line, ":"), addr)],
                      i + 1, addr)
             ELSE IF Len(parts) = 0 THEN map_labels_from(a, i + 1, addr)
             ELSE IF op[1] = "panic"
             THEN [a |-> a, result |-> Panicked(op[2])]
             ELSE map_labels_from(a, i + 1,
                                  wrapping_add(addr, instruction_len(op[2])))

map_labels(a) == map_labels_from(a, 1, 0)

\* self.program.push(byte)
push(a, byte) == [a EXCEPT !.program = Append(@, byte)]

RECURSIVE push_all(_, _)
push_all(a, seq) ==
    IF Len(seq) = 0 THEN a ELSE push_all(push(a, Head(seq)), Tail(seq))

\* the loop of the .DB arm over parts.iter().skip(1), from part k on
RECURSIVE emit_db(_, _, _, _)
emit_db(a, parts, k, line_num) ==
    IF k > Len(parts) THEN [a |-> a, result |-> Ok(<< >>)]
    ELSE LET n == resolve_number(a, parts[k], line_num)
         IN  IF ~is_ok(n) THEN [a |-> a, result |-> n]
             ELSE emit_db(push(a, n[2]), parts, k + 1, line_num)

\* the arms of  match op  in assemble
RegImmOps == {"LDI", "ADDI", "SUBI", "MULI", "DIVI", "MODI", "LDA", "STORE"}
RegRegOps ==
    {"LDR", "MOV", "ADD", "SUB", "AND", "OR", "XOR", "CMP", "MUL", "DIV", "MOD"}
RegOps ==
    {"PUSH", "POP", "INC", "DEC", "NOT", "SHL", "SHR", "ROL", "ROR", "JMPR",
     "CALLR", "PRINT"}

\* rd << 4 | rs on u8
\* pack_pair with a fault: the destination is not shifted
pack_pair_NoShift(rd, rs) == BitOr(rd, rs)

pack_pair(rd, rs) == BitOr((rd * 16) % 256, rs)

\* let opcode: u8 = op.into(); match op { ... }
emit_op(a, op, parts, line_num) ==
    LET opcode == U8FromOp(op)
        r1 == register(parts[2], line_num)
        r2 == register(parts[3], line_num)
        a1 == push(a, opcode)
        n == resolve_number(a, parts[3], line_num)
        addr == IF parts[2] \in DOMAIN a.labels THEN Ok(a.labels[parts[2]])
                ELSE resolve_number(a, parts[2], line_num)
    IN  IF op \in {"HLT", "RET"} THEN [a |-> a1, result |-> Ok(<< >>)]
        ELSE IF op = "NOP" THEN [a |-> a, result |-> Ok(<< >>)]
        ELSE IF op \in RegImmOps
        THEN IF Len(parts) < 3
             THEN [a |-> a, result |->
                      Fail(SyntaxError(line_num, "requires 2 arguments"))]
             ELSE IF ~is_ok(r1) THEN [a |-> a1, result |-> r1]
             ELSE IF ~is_ok(n) THEN [a |-> push(a1, r1[2]), result |-> n]
             ELSE [a |-> push(push(a1, r1[2]), n[2]), result |-> Ok(<< >>)]
        ELSE IF op \in RegRegOps
        THEN IF Len(parts) < 3
             THEN [a |-> a, result |->
                      Fail(SyntaxError(line_num, "requires 2 arguments"))]
             ELSE IF ~is_ok(r1) THEN [a |-> a1, result |-> r1]
             ELSE IF ~is_ok(r2) THEN [a |-> a1, result |-> r2]
             ELSE [a |-> push(a1, pack_pair(r1[2], r2[2])),
                   result |-> Ok(<< >>)]
        ELSE IF op \in RegOps
        THEN IF Len(parts) < 2
             THEN [a |-> a, result |->
                      Fail(SyntaxError(line_num, "requires 1 argument"))]
             ELSE IF ~is_ok(r1) THEN [a |-> a1, result |-> r1]
             ELSE [a |-> push(a1, r1[2]), result |-> Ok(<< >>)]
        ELSE IF Len(parts) < 2
             THEN [a |-> a, result |->
                      Fail(SyntaxError(line_num, "requires 1 argument"))]
             ELSE IF ~is_ok(addr) THEN [a |-> a, result |-> addr]
             ELSE [a |-> push(a1, addr[2]), result |-> Ok(<< >>)]

\* the body of the emission loop of assemble for line line_num
emit_line(a, line_num) ==
    LET line == strip_comment(a.asm[line_num])
        parts == split_whitespace(line)
        start == find(line, QUOTE) + 1
        end == rfind(line, QUOTE)
        op == OpFromStr(parts[1])
    IN  IF Len(line) = 0 THEN [a |-> a, result |-> Ok(<< >>)]
        ELSE IF is_label(line) \/ is_constant(line)
        THEN [a |-> a, result |-> Ok(<< >>)]
        ELSE IF starts_with(line, ".DB") THEN emit_db(a, parts, 2, line_num)
        ELSE IF starts_with(line, ".STRING")
        THEN IF start = 0
             THEN [a |-> a, result |->
                      Fail(SyntaxError(line_num, "Expected start of string"))]
             \* &line[start..end] with start after end
             ELSE IF end < start
             THEN [a |-> a, result |-> Panicked(PANIC_SLICE)]
             ELSE [a |-> push_all(a, bytes(SubSeq(line, start + 1, end))),
                   result |-> Ok(<< >>)]
        ELSE IF Len(parts) = 0 THEN [a |-> a, result |-> Ok(<< >>)]
        ELSE IF op[1] = "panic" THEN [a |-> a, result |-> Panicked(op[2])]
        ELSE emit_op(a, op[2], parts, line_num)

\* the emission loop of assemble, from line i on
RECURSIVE emit_from(_, _)
emit_from(a, i) ==
    IF i > Len(a.asm) THEN [a |-> a, result |-> Ok(<< >>)]
    ELSE LET done == emit_line(a, i)
         IN  IF ~is_ok(done.result) THEN done
             ELSE emit_from(done.a, i + 1)

\* Assembler::assemble(&mut self, asm)
assemble(a, asm) ==
    LET a0 == [a EXCEPT !.asm = asm]
        c == map_constants(a0)
        l == map_labels(c.a)
    IN  IF ~is_ok(c.result) THEN c
        ELSE IF ~is_ok(l.result) THEN l
        ELSE emit_from(l.a, 1)

(***************************************************************************)
(* Sources the callers assemble, one string per line.                      *)
(***************************************************************************)
Sources ==
    { \* assembler.rs, mod tests: test_assemble
      << "LDI R0 253", "LDI R1 65", "PRINT R1", "ADD R2 R1", "SUB R2 R0",
         "INC R0", "JZ 0x18", "INC R1", "SHL R1", "SHR R1", "JMP 0x06",
         "HLT" >>,
      \* test_assemble_rotate, test_assemble_stack
      << "LDI R0 1", "ROL R0", "ROR R0", "HLT" >>,
      << "PUSH R0", "POP R1" >>,
      \* test_assemble_arithmetic
      << "ADD R0 R1", "SUB R0 R1", "MUL R0 R1", "DIV R0 R1", "MOD R0 R1",
         "ADDI R0 1", "SUBI R0 1", "MULI R0 1", "DIVI R0 1", "MODI R0 1" >>,
      \* test_assemble_control_flow, test_assemble_logic
      << "JMP 0x10", "JZ 0x10", "JNZ 0x10", "CALL 0x10", "RET" >>,
      << "AND R0 R1", "OR R0 R1", "XOR R0 R1", "NOT R0", "CMP R0 R1" >>,
      \* test_assemble_constants
      << ".CONST VAL 10", ".CONST ADDR 0x10", "LDI R0 VAL", "JMP ADDR" >>,
      \* test_assemble_indirect_jumps
      << "JMPR R0", "CALLR R1" >>,
      \* test_assemble_data_directives
      << ".DB 0x01 0x02 10", ".STRING \"ABC\"", "LDI R0 0xFF" >>,
      \* the constant written as a name and as a literal
      << ".CONST VAL 10", "LDI R0 VAL", "HLT" >>,
      << "LDI R0 10", "HLT" >>,
      \* labels before and after their use, comments, a blank line
      << "  LDI R0 3 ; counter", "loop:", "DEC R0", "JNZ loop", "CALL sub",
         "HLT", "", "sub:", "PUSH R0", "POP R1", "PRINT R1", "RET" >>,
      \* a constant used by data and after its use, before a label
      << "LDI R15 MAX", ".CONST MAX 0xff", ".DB MAX 7", "end:", "JMP end" >>,
      \* NOP lines
      << "NOP", "LDI R0 1", "HLT" >>,
      << "NOP", "loop:", "JMP loop" >>,
      \* the remaining operations, in line
      << "LDI R0 5", "LDI R1 3", "STORE R0 200", "LDA R2 200", "MOV R3 R0",
         "LDR R4 R1", "PUSH R3", "JZ 0", "AND R3 R1", "POP R5", "PRINT R5",
         "HLT" >>,
      \* a name that is a constant and a label
      << ".CONST ADDR 0x10", "HLT", "ADDR:", "JMP ADDR" >>,
      \* a label and a constant named by no later source
      << "HLT", "a:", ".CONST K 7" >>,
      << "JMP a" >>,
      << "LDI R1 K" >>,
      \* lines that fail
      << "LDI R0 1", "PUSH R16" >>,
      << "LDI R0 1", "LDI R1 300" >>,
      << "INC R1", "", "MOV R0" >>,
      << "LDI R0 0x1" >>,
      << ".CONST X" >>,
      << ".STRING ABC" >>,
      << "HLT", "FOO R1" >> }

\* sources assembled to be run
RunSources ==
    { \* tests/integration_tests.rs: test_jmpr, test_callr
      << "LDI R0 0x06", "JMPR R0", "HLT", "LDI R1 0xFF", "HLT" >>,
      << "LDI R0 0x06", "CALLR R0", "HLT", "LDI R1 0xFF", "RET" >>,
      \* tests/error_handling_tests.rs: division by zero, stack underflow
      << "LDI R0 10", "LDI R1 0", "DIV R0 R1", "HLT" >>,
      << "RET" >>,
      << "POP R0" >>,
      \* pushes until the stack is full
      << "loop:", "PUSH R0", "JMP loop" >>,
      \* arithmetic with immediates and with a divisor that is not zero
      << "LDI R0 200", "LDI R1 3", "ADDI R0 100", "SUBI R0 50", "MULI R0 2",
         "DIVI R0 7", "MODI R0 5", "DIV R0 R1", "MOD R0 R1", "PRINT R0",
         "HLT" >>,
      \* data that decodes to a POP with register operand 16
      << "PUSH R0", ".DB 8 16" >>,
      \* a STORE into the code: the HLT at 6 becomes INC R0 (opcode 13)
      << "LDI R0 13", "STORE R0 6", "HLT" >>,
      \* an INC (opcode 13) placed at 0xFF: its operand byte is at 0x00
      << "LDI R0 13", "STORE R0 255", "JMP 255" >>,
      \* an LDI (opcode 2) placed at 0xFE: its operand bytes are at 0xFF, 0x00
      << "LDI R0 2", "STORE R0 254", "LDI R0 5", "STORE R0 255", "JMP 254" >> }

\* a number written in decimal, and register n written as the tests do
RECURSIVE Decimal(_)
Decimal(n) ==
    IF n < 10 THEN CharAt(DecimalDigits, n + 1)
    ELSE Decimal(n \div 10) \o CharAt(DecimalDigits, (n % 10) + 1)

Reg(n) == "R" \o Decimal(n)

\* tokens written where a register is expected
RegisterTokens ==
    { Reg(n) : n \in 0 .. 17 }
        \cup { "R255", "R256", "R007", "R+5", "R-1", "R", "5", "r1", "Rx", "R1x",
               "RR1", "0x1" }

\* one instruction with each register pair, and with each register token
\* on the first and on the second line
OperandSources ==
    { << "MOV " \o Reg(rd) \o " " \o Reg(rs) >> : rd, rs \in 0 .. 15 }
        \cup { << "INC " \o token >> : token \in RegisterTokens }
        \cup { << "HLT", "LDI " \o token \o " 1" >> : token \in RegisterTokens }

\* tokens written where a number is expected
NumberTokens ==
    { "0", "7", "255", "256", "300", "007", "+5", "-1", "abc", "1x",
      "0x00", "0x10", "0xff", "0xFF", "0x1234", "0x0012", "0x0100", "0x100",
      "0x1", "0x", "0xfg" }

\* each number token as an immediate, as an address, as a .DB literal and
\* as the value of a constant
NumberSources ==
    { << "LDI R0 " \o token >> : token \in NumberTokens }
        \cup { << "JMP " \o token >> : token \in NumberTokens }
        \cup { << ".DB " \o token >> : token \in NumberTokens }
        \cup { << ".CONST K " \o token, "LDI R0 K" >> : token \in NumberTokens }

(***************************************************************************)
(* Programs the callers load.  Asm builds the bytes the way the table      *)
(* encodes them; RR packs a register pair as fetch_decode unpacks it.      *)
(***************************************************************************)
RR(rd, rs) == rd * 16 + rs
I1(op) == <<U8FromOp(op)>>
I2(op, x) == <<U8FromOp(op), x>>
I3(op, x, y) == <<U8FromOp(op), x, y>>

\* n values pushed and popped again: (INC R0; PUSH R0) n times, then
\* (POP R1; PRINT R1) n times, HLT
RECURSIVE Repeat(_, _)
Repeat(code, n) == IF n = 0 THEN << >> ELSE code \o Repeat(code, n - 1)

LifoProgram(n) ==
    Repeat(I2("INC", 0) \o I2("PUSH", 0), n)
        \o Repeat(I2("POP", 1) \o I2("PRINT", 1), n) \o I1("HLT")

\* pushes up to the 21 the stack holds
LifoDepths == {1, 3, 21}

Programs ==
    { \* tests/error_handling_tests.rs: division by zero, four forms
      I3("LDI", 0, 10) \o I3("LDI", 1, 0) \o I2("DIV", RR(0, 1)) \o I1("HLT"),
      I3("LDI", 0, 10) \o I3("LDI", 1, 0) \o I2("MOD", RR(0, 1)) \o I1("HLT"),
      I3("LDI", 0, 42) \o I3("DIVI", 0, 0) \o I1("HLT"),
      I3("LDI", 0, 42) \o I3("MODI", 0, 0) \o I1("HLT"),
      \* test_normal_division_works
      I3("LDI", 0, 10) \o I3("LDI", 1, 2) \o I2("DIV", RR(0, 1)) \o I1("HLT"),
      \* test_normal_stack_operations
      I3("LDI", 0, 42) \o I2("PUSH", 0) \o I3("LDI", 0, 0) \o I2("POP", 1)
          \o I1("HLT"),
      \* test_stack_underflow, and POP on the empty stack
      I1("RET"),
      I2("POP", 0),
      \* stack overflow: a push loop and a self call
      I2("PUSH", 0) \o I2("JMP", 0),
      I2("CALL", 0),
      \* call and return
      I2("CALL", 3) \o I1("HLT") \o I1("RET"),
      \* tests/emulator_tests.rs: test_basic_execution
      I3("LDI", 0, 10) \o I2("INC", 0) \o I1("HLT"),
      \* a program that never halts
      I2("JMP", 0),
      \* shifts and rotates of 0x81
      I3("LDI", 0, 129) \o I2("SHL", 0) \o I2("SHR", 0) \o I2("ROL", 0)
          \o I2("ROR", 0) \o I2("ROR", 0) \o I1("HLT"),
      \* a register operand outside the register file
      I2("POP", 16),
      \* a call whose subroutine uses the stack and returns
      I3("LDI", 0, 7) \o I2("CALL", 6) \o I1("HLT") \o I2("PUSH", 0)
          \o I2("POP", 1) \o I1("RET"),
      \* tests/integration_tests.rs: test_jmpr, test_callr
      I3("LDI", 0, 6) \o I2("JMPR", 0) \o I1("HLT") \o I3("LDI", 1, 255)
          \o I1("HLT"),
      I3("LDI", 0, 6) \o I2("CALLR", 0) \o I1("HLT") \o I3("LDI", 1, 255)
          \o I1("RET"),
      \* wraparound of INC and DEC
      I3("LDI", 0, 255) \o I2("INC", 0) \o I2("DEC", 0) \o I1("HLT"),
      \* CMP of a greater, a lesser and an equal destination
      I3("LDI", 0, 2) \o I3("LDI", 1, 1) \o I2("CMP", RR(0, 1))
          \o I2("CMP", RR(0, 1)) \o I2("CMP", RR(1, 1)) \o I1("HLT"),
      \* two bytes that fit at 0xFE: pc advances past 0xFF
      I2("INC", 0) }
    \cup { LifoProgram(n) : n \in LifoDepths }

Starts == {0, 254}

NoFetch == [op |-> "-", operands |-> Operands("None", 0, 0)]
NoConv == [fn |-> "-", input |-> 0, output |-> 0]
NoResult == <<"-">>
AssemblerUnchanged == UNCHANGED <<assembler, assembled, assembles>>

(***************************************************************************)
(* The state machine.                                                      *)
(***************************************************************************)
SetMachine(m) ==
    /\ registers' = m.registers
    /\ pc' = m.pc
    /\ sp' = m.sp
    /\ memory' = m.memory
    /\ flags' = m.flags
    /\ is_halted' = m.is_halted
    /\ cycle' = m.cycle
    /\ current_instruction' = m.current_instruction
    /\ current_skipped' = m.current_skipped
    /\ output' = m.output
    /\ panic' = m.panic

InitWith(m) ==
    /\ registers = m.registers
    /\ pc = m.pc
    /\ sp = m.sp
    /\ memory = m.memory
    /\ flags = m.flags
    /\ is_halted = m.is_halted
    /\ cycle = m.cycle
    /\ current_instruction = m.current_instruction
    /\ current_skipped = m.current_skipped
    /\ output = m.output
    /\ panic = m.panic
    /\ fetched = NoFetch
    /\ loaded = [program |-> << >>, start |-> 0]
    /\ loads = 0
    /\ running = FALSE
    /\ run_cycles = 0
    /\ conv = NoConv
    /\ frames = << >>
    /\ assembler = NewAssembler
    /\ assembled = NoResult
    /\ assembles = 0

(***************************************************************************)
(* History of the stack.  A PUSH, CALL or CALLR that succeeds opens a      *)
(* frame: the operation, the value it has to leave on the stack (the       *)
(* register's value for PUSH; for CALL and CALLR the address of the        *)
(* instruction following it, pc + its encoded length in the ISA table) and *)
(* sp before it.  A frame stays while sp is below the frame's sp and the   *)
(* stack slot of the frame keeps its byte; a POP or RET that brings sp     *)
(* back to the frame's sp, a write to the slot and load_program close it.  *)
(***************************************************************************)
FramesAfter(m, after) ==
    LET fd == fetch_decode(m)
        op == fd.op
        Live(f) == f.sp > after.sp /\ after.memory[f.sp] = m.memory[f.sp]
    IN  IF after.panic # "" THEN frames
        ELSE IF op \in {"CALL", "CALLR"}
        THEN Append(frames, [by |-> op,
                             value |-> wrapping_add(m.pc, instruction_len(op)),
                             sp |-> m.sp])
        ELSE IF op = "PUSH"
        THEN Append(frames, [by |-> op,
                             value |-> m.registers[fd.operands.a],
                             sp |-> m.sp])
        ELSE SelectSeq(frames, Live)

\* NanoCore::new()
Init ==
    /\ InitWith(NewMachine)
    /\ call = "new"

\* the caller calls load_program(program, start)
LoadProgramStep ==
    /\ panic = ""
    /\ ~running
    /\ loads < MaxLoads
    /\ \E program \in Programs, start \in Starts :
          LET after == load_program(Machine, program, start)
          IN  /\ SetMachine(after)
              /\ loaded' = [program |-> program, start |-> start]
    /\ call' = "load_program"
    /\ loads' = loads + 1
    /\ frames' = << >>
    /\ UNCHANGED <<fetched, running, run_cycles, conv>>
    /\ AssemblerUnchanged

\* the caller calls cycle()
CycleStep ==
    /\ panic = ""
    /\ ~running
    /\ cycle < MaxCycle
    /\ LET after == Cycle(Machine)
       IN  SetMachine(after) /\ frames' = FramesAfter(Machine, after)
    /\ call' = "cycle"
    /\ fetched' = fetch_decode(Machine)
    /\ UNCHANGED <<loaded, loads, running, run_cycles, conv>>
    /\ AssemblerUnchanged

\* the caller calls run()
RunBegin ==
    /\ panic = ""
    /\ ~running
    /\ running' = TRUE
    /\ run_cycles' = 0
    /\ call' = "run"
    /\ UNCHANGED <<registers, pc, sp, memory, flags, is_halted, cycle,
                   current_instruction, current_skipped, output, panic,
                   fetched, loaded, loads, conv, frames>>
    /\ AssemblerUnchanged

\* the loop condition and the break of run(), as seen inside a run
RunIterEnabled == panic = "" /\ running /\ RunContinues(Machine)
RunExitEnabled == panic = "" /\ running /\ ~RunContinues(Machine)

\* one iteration of the while loop of run(): self.cycle()
RunIter ==
    /\ RunIterEnabled
    /\ LET after == Cycle(Machine)
       IN  /\ SetMachine(after)
           /\ running' = (after.panic = "")
           /\ frames' = FramesAfter(Machine, after)
    /\ fetched' = fetch_decode(Machine)
    /\ run_cycles' = run_cycles + 1
    /\ UNCHANGED <<call, loaded, loads, conv>>
    /\ AssemblerUnchanged

\* the while loop of run() ends and run() returns
RunExit ==
    /\ RunExitEnabled
    /\ running' = FALSE
    /\ UNCHANGED <<registers, pc, sp, memory, flags, is_halted, cycle,
                   current_instruction, current_skipped, output, panic,
                   call, fetched, loaded, loads, run_cycles, conv, frames>>
    /\ AssemblerUnchanged

(***************************************************************************)
(* The conversions of the ISA table, called on their own: the engine       *)
(* decodes a byte, the assembler encodes an operation and parses the first *)
(* token of an instruction line (Op::try_from(parts[0]) at line line_num), *)
(* the trace prints an operation by its mnemonic.                          *)
(***************************************************************************)
Tokens == {StrFromOp(op) : op \in Op} \cup {"FOO", "hlt", "ST", "R0", ""}
Lines == 1 .. 2

MachineUnchanged ==
    UNCHANGED <<registers, pc, sp, memory, flags, is_halted, cycle,
                current_instruction, current_skipped, output, call, fetched,
                loaded, loads, running, run_cycles, frames, assembler,
                assembled, assembles>>

DecodeStep ==
    /\ panic = ""
    /\ \E value \in Byte :
          conv' = [fn |-> "From<u8> for Op", input |-> value,
                   output |-> OpFromU8(value)]
    /\ UNCHANGED panic
    /\ MachineUnchanged

EncodeStep ==
    /\ panic = ""
    /\ \E op \in Op :
          conv' = [fn |-> "From<Op> for u8", input |-> op,
                   output |-> U8FromOp(op)]
    /\ UNCHANGED panic
    /\ MachineUnchanged

MnemonicStep ==
    /\ panic = ""
    /\ \E op \in Op :
          conv' = [fn |-> "From<Op> for &str", input |-> op,
                   output |-> StrFromOp(op)]
    /\ UNCHANGED panic
    /\ MachineUnchanged

ParseStep ==
    /\ panic = ""
    /\ \E token \in Tokens, line_num \in Lines :
          LET parsed == OpFromStr(token)
          IN  /\ conv' = [fn |-> "From<&str> for Op",
                          input |-> <<token, line_num>>, output |-> parsed]
              /\ panic' = IF parsed[1] = "panic" THEN parsed[2] ELSE ""
    /\ MachineUnchanged

NextIsa == DecodeStep \/ EncodeStep \/ MnemonicStep \/ ParseStep

SpecIsa == Init /\ [][NextIsa]_vars

Next == LoadProgramStep \/ CycleStep

Spec == Init /\ [][Next]_vars

\* run() as the only way cycles are executed
NextRun == LoadProgramStep \/ RunBegin \/ RunIter \/ RunExit

SpecRun == Init /\ [][NextRun]_vars

(***************************************************************************)
(* Single instructions over a range of operand values.  The machine starts *)
(* in a state earlier instructions can have produced (R0 and R1 loaded by  *)
(* LDI, sp moved by pushes, flags left by an earlier result), the program  *)
(* is one instruction loaded at 0, and the caller steps it with cycle().   *)
(***************************************************************************)
Vals == {0, 1, 127, 128, 255}
ExecSPs == {STACK_MIN, STACK_MIN + 1, STACK_MAX}
\* flag fields an earlier result leaves: Z with C, N alone
ExecFlags == {FLAG_Z + FLAG_C, FLAG_N}
\* operand byte 2: a register number, a packed register pair, an address
ExecByte2 == {0, 1, 16}
\* every assigned opcode and two unassigned ones
ExecOpcodes == (0 .. 38) \cup {255}

ExecPrograms ==
    { <<opc>> : opc \in {o \in ExecOpcodes : instruction_len(OpFromU8(o)) = 1} }
    \cup { <<opc, b2>> :
             opc \in {o \in ExecOpcodes : instruction_len(OpFromU8(o)) = 2},
             b2 \in ExecByte2 }
    \cup { <<opc, b2, b3>> :
             opc \in {o \in ExecOpcodes : instruction_len(OpFromU8(o)) = 3},
             b2 \in ExecByte2, b3 \in Vals }

ExecMachine(a, b, s, f, program) ==
    load_program(
        [NewMachine EXCEPT !.registers[0] = a, !.registers[1] = b,
                           !.sp = s, !.flags = f,
                           !.memory = [x \in 0 .. MEMORY_SIZE - 1 |->
                                           IF x > s THEN b ELSE 0]],
        program, 0)

InitExec ==
    /\ \/ \E a \in Vals, b \in Vals, s \in ExecSPs, f \in ExecFlags,
             program \in ExecPrograms :
             LET m == ExecMachine(a, b, s, f, program) IN InitWith(m)
       \* every byte value as the opcode of a one-byte program
       \/ \E opcode \in Byte :
             LET m == ExecMachine(1, 128, STACK_MAX - 1, FLAG_N, <<opcode>>)
             IN  InitWith(m)
    /\ call = "load_program"

NextExec == CycleStep

SpecExec == InitExec /\ [][NextExec]_vars

(***************************************************************************)
(* The callers of the assembler.  bin/nca.rs and the tests create an       *)
(* Assembler, call assemble on a source and read its field program; the    *)
(* bytes are then loaded at address 0 and stepped.                         *)
(***************************************************************************)
\* the caller calls assemble(asm) on the instance, asm one of sources
Assemble(sources) ==
    /\ panic = ""
    /\ loads = 0
    /\ \E asm \in sources :
          LET done == assemble(assembler, asm)
          IN  /\ assembler' = done.a
              /\ assembled' = done.result
              /\ panic' = IF done.result[1] = "panic" THEN done.result[2]
                          ELSE ""
    /\ assembles' = assembles + 1
    /\ call' = "assemble"
    /\ UNCHANGED <<registers, pc, sp, memory, flags, is_halted, cycle,
                   current_instruction, current_skipped, output, fetched,
                   loaded, loads, running, run_cycles, conv, frames>>

\* calls on one instance, one after the other
AssembleStep == assembles < MaxAssembles /\ Assemble(Sources)

\* the caller assembles one source with a new Assembler
AssembleOnceStep ==
    assembles = 0 /\ Assemble(Sources \cup RunSources \cup OperandSources
                 \cup NumberSources)

\* the caller loads the assembled bytes: load_program(&c.program, 0).  The
\* same bytes may be loaded again while the machine runs.
LoadAssembledStep ==
    /\ panic = ""
    /\ assembled = Ok(<< >>)
    /\ loads < MaxLoads + 1
    /\ LET after == load_program(Machine, assembler.program, 0)
       IN  SetMachine(after)
    /\ loaded' = [program |-> assembler.program, start |-> 0]
    /\ call' = "load_program"
    /\ loads' = loads + 1
    /\ frames' = << >>
    /\ UNCHANGED <<fetched, running, run_cycles, conv>>
    /\ AssemblerUnchanged

(***************************************************************************)
(* A program loaded into a machine that has run another one: the machine   *)
(* holds the earlier program at 0, values in R0 and R1, a stack in use,    *)
(* flags left by a result, and has halted or not.                          *)
(***************************************************************************)
UsedMachine(s, f, h) ==
    [ExecMachine(7, 128, s, f, I3("LDI", 0, 7) \o I1("HLT"))
        EXCEPT !.is_halted = h]

InitReload ==
    /\ \E s \in ExecSPs, f \in ExecFlags, h \in BOOLEAN :
          InitWith(UsedMachine(s, f, h))
    /\ call = "cycle"

NextReload == LoadProgramStep

SpecReload == InitReload /\ [][NextReload]_vars

NextAsm == AssembleStep

SpecAsm == Init /\ [][NextAsm]_vars

NextAsmRun == AssembleOnceStep \/ LoadAssembledStep \/ CycleStep

SpecAsmRun == Init /\ [][NextAsmRun]_vars

(***************************************************************************)
(* What a call hands back to its caller.  load_program, cycle and run are  *)
(* declared without a return type: a call that ends returns the unit       *)
(* value, a call that panics returns nothing.  Err is the shape of an      *)
(* EmulatorError value (src/src/error.rs) returned through a Result.       *)
(***************************************************************************)
Err(kind, detail) == <<"Err", kind, detail>>
Result == IF panic = "" THEN <<"()">> ELSE <<"panic", panic>>

\* the instruction cycle() is about to execute in machine m
NextOp(m) == fetch_decode(m).op
NextA(m) == fetch_decode(m).operands.a
NextB(m) == fetch_decode(m).operands.b

\* the divisor a DIV, MOD, DIVI or MODI about to execute would use
DivOps == {"DIV", "MOD", "DIVI", "MODI"}
Divisor(m) ==
    IF NextOp(m) \in {"DIV", "MOD"} THEN m.registers[NextB(m)] ELSE NextB(m)
ZeroDivisorAt(m) ==
    /\ NextOp(m) \in DivOps
    /\ InRegisters(NextA(m))
    /\ Divisor(m) = 0

PushOps == {"PUSH", "CALL"}
PopOps == {"POP", "RET"}

\* cpu: the components of Machine State
CpuState == <<registers, pc, sp, memory, flags, is_halted>>

-----------------------------------------------------------------------------
(***************************************************************************)
(* C1.  When cycle() executes DIV, MOD, DIVI or MODI with a zero divisor   *)
(* it returns a DivisionByZero error whose op names the mnemonic, and the  *)
(* destination register and pc keep the values they had before the cycle.  *)
(* The code divides without a check: the cycle panics and returns nothing. *)
(***************************************************************************)
C1_DivisionByZeroIsReturned ==
    [][ (CycleStep /\ ZeroDivisorAt(Machine)) =>
            /\ Result' = Err("DivisionByZero", NextOp(Machine))
            /\ registers'[NextA(Machine)] = registers[NextA(Machine)]
            /\ pc' = pc ]_vars

(***************************************************************************)
(* C2.  In every state reachable from a fresh machine by load_program and  *)
(* cycle() calls, STACK_MIN <= sp <= STACK_MAX.                            *)
(***************************************************************************)
C2_SpWithinStack == STACK_MIN <= sp /\ sp <= STACK_MAX

\* the stack is full and a further push was attempted
C2_Witness ==
    /\ sp = STACK_MIN
    /\ call = "cycle"
    /\ fetched.op \in PushOps
    /\ panic = PANIC_OVERFLOW

(***************************************************************************)
(* C3.  PUSH and CALL fail with StackOverflow{sp: 0xEA} if and only if     *)
(* sp = 0xEA when the instruction begins; with sp in 0xEB..0xFF the push   *)
(* succeeds.                                                               *)
(***************************************************************************)
C3_StackOverflowIsReturned ==
    [][ (CycleStep /\ NextOp(Machine) \in PushOps) =>
            /\ (Result' = Err("StackOverflow", STACK_MIN)) <=> (sp = STACK_MIN)
            /\ (sp # STACK_MIN) => (Result' = <<"()">> /\ sp' = sp - 1) ]_vars

(***************************************************************************)
(* C4.  POP and RET fail with StackUnderflow{sp: 0xFF} if and only if      *)
(* sp = 0xFF when the instruction begins; RET as the first instruction of  *)
(* a freshly loaded machine returns StackUnderflow.                        *)
(***************************************************************************)
C4_StackUnderflowIsReturned ==
    [][ (CycleStep /\ NextOp(Machine) \in PopOps) =>
            (Result' = Err("StackUnderflow", STACK_MAX)) <=> (sp = STACK_MAX)
      ]_vars

(***************************************************************************)
(* C5.  cycle() is atomic with respect to errors: a cycle that fails       *)
(* (division by zero, stack overflow, stack underflow) returns the error   *)
(* and leaves registers, pc, sp, memory, flags and halted as they were.    *)
(***************************************************************************)
FailsAt(m) ==
    \/ ZeroDivisorAt(m)
    \/ NextOp(m) \in PushOps /\ m.sp = STACK_MIN
    \/ NextOp(m) \in PopOps /\ m.sp = STACK_MAX

C5_ErrorsAreAtomic ==
    [][ (CycleStep /\ FailsAt(Machine)) =>
            /\ Result'[1] = "Err"
            /\ CpuState' = CpuState ]_vars

(***************************************************************************)
(* C6.  load_program(bytes, start) fails with ProgramTooLarge{size, start, *)
(* max: 256} if and only if start + len(bytes) > 256, and a failed load    *)
(* changes no byte of memory and not pc.                                   *)
(***************************************************************************)
C6_ProgramTooLargeIsReturned ==
    [][ LoadProgramStep =>
            LET size == Len(loaded'.program)
                start == loaded'.start
            IN  /\ (Result' = Err("ProgramTooLarge", <<size, start, 256>>))
                      <=> (start + size > 256)
                /\ (start + size > 256) => (memory' = memory /\ pc' = pc)
      ]_vars

(***************************************************************************)
(* C7.  Halted is terminal: once a cycle has executed HLT, is_halted stays *)
(* true, HLT does not advance pc, and a further cycle() leaves registers,  *)
(* pc, sp, memory and flags unchanged.                                     *)
(***************************************************************************)
C7_HaltedIsTerminal ==
    [][ /\ is_halted => is_halted'
        /\ (CycleStep /\ NextOp(Machine) = "HLT") => pc' = pc
        /\ (CycleStep /\ is_halted) =>
               <<registers, pc, sp, memory, flags>>' =
               <<registers, pc, sp, memory, flags>> ]_vars

AluOps ==
    { "ADD", "SUB", "MUL", "DIV", "MOD", "ADDI", "SUBI", "MULI", "DIVI",
      "MODI", "INC", "DEC", "AND", "OR", "XOR", "NOT", "CMP", "SHL", "SHR",
      "ROL", "ROR" }

C9_ZNFollowResult ==
    (call = "cycle" /\ fetched.op \in AluOps /\ panic = "") =>
        /\ get_flag(flags, FLAG_Z) <=> (registers[fetched.operands.a] = 0)
        /\ get_flag(flags, FLAG_N) <=> (registers[fetched.operands.a] >= 128)

\* 128 + 128 = 0: Z set, N cleared, on a machine that had N set before
C9_Witness ==
    /\ call = "cycle"
    /\ fetched.op = "ADD"
    /\ panic = ""
    /\ registers[fetched.operands.a] = 0
    /\ get_flag(flags, FLAG_Z)
    /\ get_flag(flags, FLAG_C)
    /\ ~get_flag(flags, FLAG_N)

(***************************************************************************)
(* C10.  After SHL, SHR, ROL or ROR the C flag is set iff the bit shifted  *)
(* or rotated out was 1 (bit 7 of the old value for SHL and ROL, bit 0 for *)
(* SHR and ROR).                                                           *)
(***************************************************************************)
ShiftOps == {"SHL", "SHR", "ROL", "ROR"}
BitOut(op, value) ==
    IF op \in {"SHL", "ROL"} THEN Bit(value, 7) ELSE Bit(value, 0)

C10_CarryIsBitShiftedOut ==
    [][ (CycleStep /\ NextOp(Machine) \in ShiftOps /\ panic' = "") =>
            (get_flag(flags', FLAG_C) <=>
                BitOut(NextOp(Machine), registers[NextA(Machine)]) = 1) ]_vars

(***************************************************************************)
(* C11.  ADD/ADDI, SUB/SUBI and MUL/MULI write the exact result reduced    *)
(* modulo 256 into the destination register and never trap; C is set iff   *)
(* the exact result lies outside 0..255.  DIV/DIVI and MOD/MODI with a     *)
(* non-zero divisor write the integer quotient / remainder and clear C.    *)
(***************************************************************************)
ArithOps ==
    {"ADD", "ADDI", "SUB", "SUBI", "MUL", "MULI", "DIV", "DIVI", "MOD", "MODI"}

\* the second operand of the arithmetic instruction about to execute
SecondOperand(m) ==
    IF NextOp(m) \in {"ADD", "SUB", "MUL", "DIV", "MOD"}
    THEN m.registers[NextB(m)]
    ELSE NextB(m)

\* the result in the integers
Exact(op, v1, v2) ==
    IF op \in {"ADD", "ADDI"} THEN v1 + v2
    ELSE IF op \in {"SUB", "SUBI"} THEN v1 - v2
    ELSE IF op \in {"MUL", "MULI"} THEN v1 * v2
    ELSE IF op \in {"DIV", "DIVI"} THEN v1 \div v2
    ELSE v1 % v2

C11_ArithmeticWrapsWithCarry ==
    [][ ( /\ CycleStep
          /\ NextOp(Machine) \in ArithOps
          /\ InRegisters(NextA(Machine))
          /\ ~ZeroDivisorAt(Machine) ) =>
            LET exact == Exact(NextOp(Machine), registers[NextA(Machine)],
                               SecondOperand(Machine))
            IN  /\ panic' = ""
                /\ registers'[NextA(Machine)] = (exact + 256) % 256
                /\ get_flag(flags', FLAG_C) <=> (exact < 0 \/ exact > 255)
                /\ NextOp(Machine) \in DivOps => ~get_flag(flags', FLAG_C)
      ]_vars

\* 255 * 255 = 65025: the register holds 1 and C is set
C11_Witness ==
    /\ call = "cycle"
    /\ fetched.op = "MUL"
    /\ fetched.operands = Operands("RegReg", 0, 1)
    /\ panic = ""
    /\ registers[1] = 255
    /\ registers[0] = 1
    /\ get_flag(flags, FLAG_C)

(***************************************************************************)
(* C12.  INC on a register holding 255 yields 0, sets Z, clears N and sets *)
(* C; DEC on a register holding 0 yields 255 with Z clear and N set; in    *)
(* general the result of INC / DEC is (old + 1) / (old - 1) modulo 256 and *)
(* the instruction does not trap.                                          *)
(***************************************************************************)
C12_IncDecWrap ==
    [][ ( /\ CycleStep
          /\ NextOp(Machine) \in {"INC", "DEC"}
          /\ InRegisters(NextA(Machine)) ) =>
            LET inc == NextOp(Machine) = "INC"
                old == registers[NextA(Machine)]
                new == registers'[NextA(Machine)]
            IN  /\ panic' = ""
                /\ new = IF inc THEN (old + 1) % 256 ELSE (old + 255) % 256
                /\ (inc /\ old = 255) =>
                       /\ new = 0
                       /\ get_flag(flags', FLAG_Z)
                       /\ ~get_flag(flags', FLAG_N)
                       /\ get_flag(flags', FLAG_C)
                /\ (~inc /\ old = 0) =>
                       /\ new = 255
                       /\ ~get_flag(flags', FLAG_Z)
                       /\ get_flag(flags', FLAG_N)
      ]_vars

(***************************************************************************)
(* C13.  CMP Rd Rs overwrites Rd with 0 when the two register values are   *)
(* equal, 1 when the value of Rd (the first operand) is greater than the   *)
(* value of Rs, 2 when it is less; Z and N follow that result: Z is set    *)
(* exactly for 0 and N is always clear.                                    *)
(***************************************************************************)
C13_CmpEncodesOrder ==
    [][ (CycleStep /\ NextOp(Machine) = "CMP") =>
            LET vd == registers[NextA(Machine)]
                vs == registers[NextB(Machine)]
                result == registers'[NextA(Machine)]
            IN  /\ panic' = ""
                /\ result = IF vd = vs THEN 0 ELSE IF vd > vs THEN 1 ELSE 2
                /\ get_flag(flags', FLAG_Z) <=> (vd = vs)
                /\ ~get_flag(flags', FLAG_N)
      ]_vars

(***************************************************************************)
(* C14.  After a cycle that completes without error and does not halt, pc  *)
(* is (old pc + instruction length of the executed operation) mod 256 for  *)
(* every operation except JMP, a taken JZ / JNZ, CALL, RET, JMPR and       *)
(* CALLR; for those pc is the jump target (the address operand, the        *)
(* register's value, the popped return address) with no length added.      *)
(***************************************************************************)
\* the JZ or JNZ about to execute in machine m would jump
Taken(m) == get_flag(m.flags, FLAG_Z) = (NextOp(m) = "JZ")

JumpTarget(m) ==
    IF NextOp(m) \in {"JMP", "JZ", "JNZ", "CALL"} THEN NextA(m)
    ELSE IF NextOp(m) \in {"JMPR", "CALLR"} THEN m.registers[NextA(m)]
    ELSE m.memory[wrapping_add(m.sp, 1)]

Jumps(m) ==
    \/ NextOp(m) \in {"JMP", "CALL", "RET", "JMPR", "CALLR"}
    \/ NextOp(m) \in {"JZ", "JNZ"} /\ Taken(m)

C14_PcAdvancesOrJumps ==
    [][ (CycleStep /\ panic' = "" /\ ~is_halted') =>
            pc' = IF Jumps(Machine) THEN JumpTarget(Machine)
                  ELSE (pc + instruction_len(NextOp(Machine))) % 256
      ]_vars

\* JNZ 16 was taken: pc is 16, not 18
C14_Witness ==
    /\ call = "cycle"
    /\ panic = ""
    /\ ~is_halted
    /\ cycle = 1
    /\ fetched.op = "JNZ"
    /\ ~current_skipped
    /\ pc = 16

(***************************************************************************)
(* C15.  CALL a stores pc + instruction_len(CALL), the address of the      *)
(* instruction following the CALL, at memory[sp], decrements sp and sets   *)
(* pc to a; RET increments sp and sets pc to memory[sp].  Hence a RET that *)
(* brings sp back to the level of the innermost call in progress (the      *)
(* stack use since the CALL was balanced and its slot was not overwritten) *)
(* resumes at the instruction following that CALL, with sp as it was       *)
(* before the CALL.                                                        *)
(***************************************************************************)
C15_CallPushesReturnAddress ==
    [][ /\ (CycleStep /\ NextOp(Machine) = "CALL" /\ sp # STACK_MIN) =>
               /\ panic' = ""
               /\ memory'[sp] = (pc + instruction_len("CALL")) % 256
               /\ sp' = sp - 1
               /\ pc' = NextA(Machine)
        /\ (CycleStep /\ NextOp(Machine) = "RET" /\ sp # STACK_MAX) =>
               /\ panic' = ""
               /\ sp' = sp + 1
               /\ pc' = memory[sp + 1]
        /\ (CycleStep /\ NextOp(Machine) = "RET" /\ frames # << >>
                /\ frames[Len(frames)].by = "CALL"
                /\ sp + 1 = frames[Len(frames)].sp) =>
               /\ pc' = frames[Len(frames)].value
               /\ sp' = frames[Len(frames)].sp
      ]_vars

\* the subroutine at 6 pushed and popped R0 and returned behind the CALL at 3
C15_Witness ==
    /\ call = "cycle"
    /\ fetched.op = "RET"
    /\ panic = ""
    /\ pc = 5
    /\ sp = STACK_MAX
    /\ memory[STACK_MAX] = 5
    /\ registers[1] = 7
    /\ frames = << >>

C17_StackIsLifo ==
    [][ /\ (CycleStep /\ NextOp(Machine) = "PUSH"
                /\ InRegisters(NextA(Machine)) /\ sp # STACK_MIN) =>
               /\ panic' = ""
               /\ memory'[sp] = registers[NextA(Machine)]
               /\ sp' = sp - 1
        /\ (CycleStep /\ NextOp(Machine) = "POP"
                /\ InRegisters(NextA(Machine)) /\ sp # STACK_MAX) =>
               /\ panic' = ""
               /\ sp' = sp + 1
               /\ registers'[NextA(Machine)] = memory[sp + 1]
        /\ (CycleStep /\ NextOp(Machine) = "POP"
                /\ InRegisters(NextA(Machine)) /\ frames # << >>
                /\ frames[Len(frames)].by = "PUSH"
                /\ sp + 1 = frames[Len(frames)].sp) =>
               /\ registers'[NextA(Machine)] = frames[Len(frames)].value
               /\ sp' = frames[Len(frames)].sp
      ]_vars

\* 21 values were pushed from an empty stack and popped again: they were
\* printed in reverse order and the stack is empty
C17_Witness ==
    /\ call = "cycle"
    /\ fetched.op = "HLT"
    /\ panic = ""
    /\ sp = STACK_MAX
    /\ frames = << >>
    /\ Len(output) = 21
    /\ \A i \in 1 .. 21 : output[i] = 22 - i

(***************************************************************************)
(* C18.  Opcode decoding is total: every byte 0..255 decodes to an         *)
(* operation, and a byte with no assigned opcode decodes to NOP; executing *)
(* such a byte on a running machine never fails and changes nothing in the *)
(* machine state except pc, which advances by 1 modulo 256.                *)
(***************************************************************************)
\* the bytes that have a row in the decode table
AssignedBytes ==
    (0 .. Len(OpTable) - 1)
        \cup {OPCODE_ROL, OPCODE_ROR, OPCODE_JMPR, OPCODE_CALLR}

C18_UnassignedBytesAreNop ==
    [][ CycleStep =>
            /\ NextOp(Machine) \in Op
            /\ (memory[pc] \notin AssignedBytes /\ ~is_halted) =>
                   /\ NextOp(Machine) = "NOP"
                   /\ panic' = ""
                   /\ pc' = (pc + 1) % 256
                   /\ <<registers, sp, memory, flags, is_halted>>' =
                      <<registers, sp, memory, flags, is_halted>>
      ]_vars

\* the byte 0xFF at address 0 was executed as a NOP
C18_Witness ==
    /\ call = "cycle"
    /\ fetched.op = "NOP"
    /\ memory[0] = 255
    /\ pc = 1
    /\ cycle = 1
    /\ panic = ""
    /\ ~is_halted

(***************************************************************************)
(* C19.  The opcode mapping is a bijection between the operations and      *)
(* their assigned bytes: decoding the byte an operation encodes to gives   *)
(* the operation back, encoding the operation an assigned byte decodes to  *)
(* gives the byte back, and no two operations encode to the same byte.     *)
(***************************************************************************)
C19_OpcodeBijection ==
    /\ (conv.fn = "From<Op> for u8") =>
           /\ conv.output \in AssignedBytes
           /\ OpFromU8(conv.output) = conv.input
           /\ \A other \in Op \ {conv.input} : U8FromOp(other) # conv.output
    /\ (conv.fn = "From<u8> for Op" /\ conv.input \in AssignedBytes) =>
           U8FromOp(conv.output) = conv.input

\* SHL, declared after JNZ in the enum, encodes to 0x14
C19_Witness ==
    /\ conv.fn = "From<Op> for u8"
    /\ conv.input = "SHL"
    /\ conv.output = 20

(***************************************************************************)
(* C20.  Parsing the mnemonic of an operation yields that operation, and   *)
(* distinct operations have distinct mnemonics; a token that is not the    *)
(* mnemonic of any operation is rejected with a SyntaxError carrying the   *)
(* line number: it is never mapped to an operation and never aborts the    *)
(* process.                                                                *)
(***************************************************************************)
MnemonicSet == {StrFromOp(op) : op \in Op}

C20_MnemonicsRoundTrip ==
    /\ (conv.fn = "From<Op> for &str") =>
           /\ OpFromStr(conv.output) = <<"Op", conv.input>>
           /\ \A other \in Op \ {conv.input} : StrFromOp(other) # conv.output
    /\ (conv.fn = "From<&str> for Op" /\ conv.input[1] \in MnemonicSet) =>
           /\ conv.output[1] = "Op"
           /\ StrFromOp(conv.output[2]) = conv.input[1]
    /\ (conv.fn = "From<&str> for Op" /\ conv.input[1] \notin MnemonicSet) =>
           /\ conv.output = Err("SyntaxError", conv.input[2])
           /\ panic = ""

(***************************************************************************)
(* Claims about the assembler read the source the way assemble does: an    *)
(* instruction line is a line that is neither empty, a label, a .CONST     *)
(* line nor a data directive once its comment is stripped.                 *)
(***************************************************************************)
IsInstructionLine(raw) ==
    LET line == strip_comment(raw)
    IN  /\ Len(line) > 0
        /\ ~is_label(line)
        /\ ~is_constant(line)
        /\ ~starts_with(line, ".DB")
        /\ ~starts_with(line, ".STRING")

IsDataLine(raw) ==
    LET line == strip_comment(raw)
    IN  /\ ~is_label(line)
        /\ ~is_constant(line)
        /\ starts_with(line, ".DB") \/ starts_with(line, ".STRING")

LineParts(raw) == split_whitespace(strip_comment(raw))
LineOp(raw) == OpFromStr(LineParts(raw)[1])[2]

\* the numbers of the instruction lines of a source, in order
RECURSIVE InstructionLinesFrom(_, _)
InstructionLinesFrom(asm, i) ==
    IF i > Len(asm) THEN << >>
    ELSE (IF IsInstructionLine(asm[i]) THEN <<i>> ELSE << >>)
             \o InstructionLinesFrom(asm, i + 1)

InstructionLines(asm) == InstructionLinesFrom(asm, 1)

\* the bytes the emission pass appends for line i of the assembled source
EmittedFor(a, i) ==
    LET done == emit_line(a, i).a
    IN  SubSeq(done.program, Len(a.program) + 1, Len(done.program))

\* the bytes appended for the lines before line i
RECURSIVE EmittedBefore(_, _)
EmittedBefore(a, i) ==
    IF i <= 1 THEN << >>
    ELSE EmittedBefore(a, i - 1) \o EmittedFor(a, i - 1)

FlowOps == {"JMP", "JZ", "JNZ", "CALL", "RET", "JMPR", "CALLR"}

\* instructions only, none of which moves pc elsewhere
StraightLine(asm) ==
    \A i \in 1 .. Len(asm) :
        /\ ~IsDataLine(asm[i])
        /\ IsInstructionLine(asm[i]) => LineOp(asm[i]) \notin FlowOps

\* the operation and operands written on instruction line i, in the shape
\* fetch_decode gives
Written(a, i) ==
    LET parts == LineParts(a.asm[i])
        op == LineOp(a.asm[i])
        operands ==
            IF op \in {"HLT", "NOP", "RET"} THEN Operands("None", 0, 0)
            ELSE IF op \in {"LDA", "STORE"}
            THEN Operands("RegAddr", register(parts[2], i)[2],
                          resolve_number(a, parts[3], i)[2])
            ELSE IF op \in RegImmOps
            THEN Operands("RegImm", register(parts[2], i)[2],
                          resolve_number(a, parts[3], i)[2])
            ELSE IF op \in RegRegOps
            THEN Operands("RegReg", register(parts[2], i)[2],
                          register(parts[3], i)[2])
            ELSE IF op \in RegOps
            THEN Operands("Reg", register(parts[2], i)[2], 0)
            ELSE Operands("Addr",
                          IF parts[2] \in DOMAIN a.labels
                          THEN a.labels[parts[2]]
                          ELSE resolve_number(a, parts[2], i)[2], 0)
    IN  [op |-> op, operands |-> operands]

(***************************************************************************)
(* C21: the assembler encodes exactly what the engine decodes.  For every  *)
(* instruction line of a source that assembles, the number of bytes        *)
(* emitted is the instruction length of its operation; and when a          *)
(* straight-line assembled program is loaded at 0 and stepped, the k-th    *)
(* cycle starts with pc at the offset of the k-th source instruction and   *)
(* decodes the operation and operands written there.                       *)
(***************************************************************************)
C21_AssemblerEncodesWhatEngineDecodes ==
    [][ /\ (AssembleOnceStep /\ assembled' = Ok(<< >>)) =>
               \A i \in 1 .. Len(assembler'.asm) :
                   IsInstructionLine(assembler'.asm[i]) =>
                       Len(EmittedFor(assembler', i))
                           = instruction_len(LineOp(assembler'.asm[i]))
        /\ ( /\ CycleStep
             /\ loads = 1
             /\ ~is_halted
             /\ StraightLine(assembler.asm)
             /\ cycle < Len(InstructionLines(assembler.asm)) ) =>
               LET i == InstructionLines(assembler.asm)[cycle + 1]
               IN  /\ pc = Len(EmittedBefore(assembler, i))
                   /\ fetch_decode(Machine) = Written(assembler, i) ]_vars

\* a line map_labels records as a label, and the name it records
IsLabelLine(raw) ==
    LET line == strip_comment(raw)
    IN  /\ Len(line) > 0
        /\ ~is_constant(line)
        /\ ~starts_with(line, ".DB")
        /\ ~starts_with(line, ".STRING")
        /\ is_label(line)

LabelName(raw) == trim_end_matches(strip_comment(raw), ":")

(***************************************************************************)
(* C22: in a source that assembles, every label resolves to the number of  *)
(* bytes the emission pass outputs for the lines before the label line     *)
(* (mod 256): the advance of the label pass for a line is the number of    *)
(* bytes emitted for it, for every operation including NOP.                *)
(***************************************************************************)
C22_LabelIsEmittedOffset ==
    assembled = Ok(<< >>) =>
        \A i \in 1 .. Len(assembler.asm) :
            ( /\ IsLabelLine(assembler.asm[i])
              /\ \A j \in i + 1 .. Len(assembler.asm) :
                     IsLabelLine(assembler.asm[j]) =>
                         LabelName(assembler.asm[j]) # LabelName(assembler.asm[i]) )
            => assembler.labels[LabelName(assembler.asm[i])]
                   = Len(EmittedBefore(assembler, i)) % 256

\* the instruction fetch_decode reads at offset off of a program loaded at 0
DecodedAt(program, off) ==
    fetch_decode([load_program(NewMachine, program, 0) EXCEPT !.pc = off])

\* the byte stream decoded instruction by instruction
RECURSIVE DecodeFrom(_, _)
DecodeFrom(program, off) ==
    IF off >= Len(program) THEN << >>
    ELSE LET fd == DecodedAt(program, off)
         IN  <<fd>> \o DecodeFrom(program, off + instruction_len(fd.op))

\* a decoded instruction written back as bytes
Reencode(fd) ==
    LET k == fd.operands.kind
    IN  IF k = "None" THEN <<U8FromOp(fd.op)>>
        ELSE IF k \in {"RegImm", "RegAddr"}
        THEN <<U8FromOp(fd.op), fd.operands.a, fd.operands.b>>
        ELSE IF k = "RegReg"
        THEN <<U8FromOp(fd.op), fd.operands.a * 16 + fd.operands.b>>
        ELSE <<U8FromOp(fd.op), fd.operands.a>>

RECURSIVE ReencodeAll(_)
ReencodeAll(decoded) ==
    IF Len(decoded) = 0 THEN << >>
    ELSE Reencode(Head(decoded)) \o ReencodeAll(Tail(decoded))

NoDataLines(asm) == \A i \in 1 .. Len(asm) : ~IsDataLine(asm[i])

IsConstLine(raw) ==
    is_constant(strip_comment(raw)) /\ Len(LineParts(raw)) >= 3

ConstNames(asm) ==
    { LineParts(asm[i])[2] : i \in {j \in 1 .. Len(asm) : IsConstLine(asm[j])} }

ConstText(asm, name) ==
    LET last == CHOOSE i \in 1 .. Len(asm) :
                    /\ IsConstLine(asm[i])
                    /\ LineParts(asm[i])[2] = name
                    /\ \A j \in i + 1 .. Len(asm) :
                           IsConstLine(asm[j]) => LineParts(asm[j])[2] # name
    IN  LineParts(asm[last])[3]

RECURSIVE JoinParts(_)
JoinParts(parts) ==
    IF Len(parts) = 0 THEN ""
    ELSE IF Len(parts) = 1 THEN parts[1]
    ELSE parts[1] \o " " \o JoinParts(Tail(parts))

\* a line with the value text written in place of a constant's name, where
\* the name is an immediate or an address operand or a .DB value
LiteralLine(asm, raw) ==
    LET line == strip_comment(raw)
        parts == split_whitespace(line)
        Lit(token) == IF token \in ConstNames(asm) THEN ConstText(asm, token)
                      ELSE token
        at == IF starts_with(line, ".DB") THEN 2 .. Len(parts)
              ELSE IF parts[1] \in RegImmOps THEN {3}
              ELSE IF parts[1] \in {"JMP", "JZ", "JNZ", "CALL"} THEN {2}
              ELSE {}
    IN  IF Len(line) = 0 \/ is_label(line) \/ starts_with(line, ".STRING")
        THEN line
        ELSE JoinParts([k \in 1 .. Len(parts) |->
                           IF k \in at THEN Lit(parts[k]) ELSE parts[k]])

\* the source without its .CONST lines, the values written as literals
RECURSIVE LiteralFrom(_, _)
LiteralFrom(asm, i) ==
    IF i > Len(asm) THEN << >>
    ELSE (IF is_constant(strip_comment(asm[i])) THEN << >>
          ELSE <<LiteralLine(asm, asm[i])>>) \o LiteralFrom(asm, i + 1)

LiteralSource(asm) == LiteralFrom(asm, 1)

\* a new Assembler assembles the source and the source written with
\* literals to the same bytes and the same label addresses, and no bytes are
\* emitted for a .CONST line
SameAsLiteral(a) ==
    LET literal == assemble(NewAssembler, LiteralSource(a.asm))
    IN  /\ literal.result = Ok(<< >>)
        /\ literal.a.program = a.program
        /\ literal.a.labels = a.labels
        /\ \A i \in 1 .. Len(a.asm) :
               IsConstLine(a.asm[i]) => EmittedFor(a, i) = << >>

C26_NoPartialProgram ==
    assembled[1] = "Err" => assembler.program = << >>

(***************************************************************************)
(* C27: every assemble call starts from fresh state.  Whatever was         *)
(* assembled on the instance before, a call returns what a new Assembler   *)
(* returns for the source and leaves the program a new Assembler leaves:   *)
(* assembling a source twice gives the program of assembling it once, and  *)
(* labels and constants of an earlier source are not visible.              *)
(***************************************************************************)
C27_AssembleStartsFresh ==
    [][ AssembleStep =>
            LET fresh == assemble(NewAssembler, assembler'.asm)
            IN  /\ assembled' = fresh.result
                /\ assembler'.program = fresh.a.program ]_vars

(***************************************************************************)
(* C28: the stack pointer is moved by PUSH, POP, CALL, RET and CALLR       *)
(* alone.  load_program leaves sp as it is, and a cycle that ends without  *)
(* panic moves sp down by one for PUSH, CALL and CALLR, up by one for POP  *)
(* and RET, and not at all for any other operation.                        *)
(***************************************************************************)
C28_OnlyStackOpsMoveSp ==
    [][ /\ LoadAssembledStep => sp' = sp
        /\ (CycleStep /\ panic' = "") =>
               sp' = IF NextOp(Machine) \in {"PUSH", "CALL", "CALLR"}
                     THEN sp - 1
                     ELSE IF NextOp(Machine) \in {"POP", "RET"}
                     THEN sp + 1
                     ELSE sp ]_vars

\* the assembled bytes are loaded again after two pushes, and sp stays
C28_Witness ==
    /\ call = "load_program"
    /\ loads = 2
    /\ panic = ""
    /\ sp = STACK_MAX - 2
    /\ memory[STACK_MAX] = 0
    /\ assembler.asm = << "loop:", "PUSH R0", "JMP loop" >>

(***************************************************************************)
(* C29: PRINT Rx appends the byte held in Rx, one character, to the output *)
(* accumulator and changes no register, flag, memory byte or sp; pc moves  *)
(* on by 2.  No other operation changes the accumulator, so the output     *)
(* only grows, by the printed bytes in the order of execution.             *)
(***************************************************************************)
C29_PrintAppendsOneByte ==
    [][ (CycleStep /\ panic' = "") =>
            IF NextOp(Machine) = "PRINT"
            THEN /\ output' = Append(output, registers[NextA(Machine)])
                 /\ registers' = registers
                 /\ flags' = flags
                 /\ memory' = memory
                 /\ sp' = sp
                 /\ ~is_halted => pc' = (pc + 2) % 256
            ELSE output' = output ]_vars

\* the second PRINT of the test_assemble loop: 'A' was printed, 'A' follows
C29_Witness ==
    /\ call = "cycle"
    /\ fetched.op = "PRINT"
    /\ output = << 65, 65 >>
    /\ registers[1] = 65
    /\ pc = 8
    /\ ~is_halted

\* a register operand as the grammar writes it: R and a decimal number
\* from 0 to 15
RECURSIVE NumberOf(_)
NumberOf(digits) ==
    IF Len(digits) = 0 THEN 0
    ELSE NumberOf(SubSeq(digits, 1, Len(digits) - 1)) * 10
             + DigitOf(CharAt(digits, Len(digits)))

IsDecimal(s) == Len(s) > 0 /\ \A i \in 1 .. Len(s) : is_digit(CharAt(s, i))

RegisterNumber(token) == NumberOf(SubSeq(token, 2, Len(token)))

WellFormedRegister(token) ==
    /\ starts_with(token, "R")
    /\ IsDecimal(SubSeq(token, 2, Len(token)))
    /\ RegisterNumber(token) <= 15

\* the passes over constants and labels have nothing to fail on
PlainSource(asm) ==
    \A i \in 1 .. Len(asm) :
        /\ ~is_constant(strip_comment(asm[i]))
        /\ ~starts_with(strip_comment(asm[i]), ".STRING")
        /\ IsInstructionLine(asm[i]) =>
               OpFromStr(LineParts(asm[i])[1])[1] = "Op"

\* line i is the first line of the source that has operands: an
\* instruction whose first operand is a register
FirstRegisterLine(asm, i) ==
    /\ IsInstructionLine(asm[i])
    /\ \/ LineOp(asm[i]) \in RegOps /\ Len(LineParts(asm[i])) >= 2
       \/ LineOp(asm[i]) \in RegImmOps /\ Len(LineParts(asm[i])) >= 3
    /\ \A j \in 1 .. i - 1 :
           IsInstructionLine(asm[j]) /\ LineOp(asm[j]) \in {"HLT", "RET", "NOP"}

(***************************************************************************)
(* C30: a register operand is accepted if and only if it is R followed by  *)
(* a decimal number from 0 to 15, and it is encoded as that number; any    *)
(* other token is rejected with InvalidRegister carrying the token and the *)
(* 1-based number of its line.                                             *)
(***************************************************************************)
C30_RegisterOperand ==
    \A i \in 1 .. Len(assembler.asm) :
        ( /\ assembles = 1
          /\ PlainSource(assembler.asm)
          /\ FirstRegisterLine(assembler.asm, i) ) =>
            LET token == LineParts(assembler.asm[i])[2]
                at == Len(EmittedBefore(assembler, i))
            IN  IF WellFormedRegister(token)
                THEN /\ assembled # Fail(InvalidRegister(i, token))
                     /\ Len(assembler.program) >= at + 2
                     /\ assembler.program[at + 2] = RegisterNumber(token)
                ELSE assembled = Fail(InvalidRegister(i, token))

\* the value a numeric token denotes: 0x and hexadecimal digits, or decimal
\* digits with an optional sign; <<n>>, or << >> for a token that is no
\* number
RECURSIVE HexValue(_)
HexValue(digits) ==
    IF Len(digits) = 0 THEN 0
    ELSE HexValue(SubSeq(digits, 1, Len(digits) - 1)) * 16
             + HexOf(CharAt(digits, Len(digits)))

Denoted(token) ==
    LET hex == SubSeq(token, 3, Len(token))
        unsigned == IF starts_with(token, "+")
                    THEN SubSeq(token, 2, Len(token)) ELSE token
    IN  IF starts_with(token, "0x")
        THEN IF Len(hex) > 0 /\ \A i \in 1 .. Len(hex) : is_hex_digit(CharAt(hex, i))
             THEN <<HexValue(hex)>> ELSE << >>
        ELSE IF IsDecimal(unsigned) THEN <<NumberOf(unsigned)>> ELSE << >>

\* the numeric token of a source that holds one, and the place of its byte
\* in the program: an immediate, an address, a .DB literal, the value of a
\* constant used as an immediate
NumberUse(asm) ==
    LET first == split_whitespace(asm[1])
    IN  IF Len(asm) = 1 /\ Len(first) = 3 /\ first[1] = "LDI" /\ first[2] = "R0"
        THEN <<first[3], 3>>
        ELSE IF Len(asm) = 1 /\ Len(first) = 2 /\ first[1] = "JMP"
        THEN <<first[2], 2>>
        ELSE IF Len(asm) = 1 /\ Len(first) = 2 /\ first[1] = ".DB"
        THEN <<first[2], 1>>
        ELSE IF Len(asm) = 2 /\ Len(first) = 3 /\ first[1] = ".CONST"
                /\ asm[2] = "LDI R0 " \o first[2]
        THEN <<first[3], 3>>
        ELSE << >>

(***************************************************************************)
(* C31: a numeric token (immediate, address, .CONST value, .DB literal) is *)
(* accepted only if it denotes a value that fits in a byte, and the byte   *)
(* emitted for an accepted token is the value it denotes: a decimal above  *)
(* 255 and a hexadecimal literal wider than one byte are rejected, never   *)
(* truncated.                                                              *)
(***************************************************************************)
C31_NumericTokenFitsByte ==
    ( /\ assembles = 1
      /\ Len(assembler.asm) > 0
      /\ NumberUse(assembler.asm) # << >>
      /\ assembled = Ok(<< >>) ) =>
        LET token == NumberUse(assembler.asm)[1]
            at == NumberUse(assembler.asm)[2]
        IN  /\ Denoted(token) # << >>
            /\ Denoted(token)[1] <= 255
            /\ Len(assembler.program) >= at
            /\ assembler.program[at] = Denoted(token)[1]

\* the source with line i taken out and put back as line j
MoveLine(asm, i, j) ==
    LET rest == SubSeq(asm, 1, i - 1) \o SubSeq(asm, i + 1, Len(asm))
    IN  SubSeq(rest, 1, j - 1) \o <<asm[i]>> \o SubSeq(rest, j, Len(rest))

\* line i is the only definition of its constant
DefinedOnce(asm, i) ==
    \A k \in 1 .. Len(asm) :
        (k # i /\ IsConstLine(asm[i]) /\ IsConstLine(asm[k])) =>
            LineParts(asm[k])[2] # LineParts(asm[i])[2]

(***************************************************************************)
(* C32: constant definitions are order-independent of code: a .CONST line  *)
(* moved to any other place of the source, before or after the lines that  *)
(* use its name, gives the same program bytes and the same label           *)
(* addresses.                                                              *)
(***************************************************************************)
C32_ConstantsOrderIndependent ==
    ( call = "assemble" /\ assembles = 1 ) =>
        \A i, j \in 1 .. Len(assembler.asm) :
            ( /\ is_constant(strip_comment(assembler.asm[i]))
              /\ DefinedOnce(assembler.asm, i) ) =>
                LET moved == assemble(NewAssembler, MoveLine(assembler.asm, i, j))
                IN  /\ moved.a.program = assembler.program
                    /\ moved.a.labels = assembler.labels
                    /\ moved.result[1] = assembled[1]

\* a constant defined on the last line and used on the first
C32_Witness ==
    /\ call = "assemble"
    /\ assembles = 1
    /\ assembled = Ok(<< >>)
    /\ Len(assembler.asm) = 5
    /\ assembler.asm[1] = "LDI R15 MAX"
    /\ IsConstLine(assembler.asm[2])
    /\ assembler.program = <<2, 15, 255, 255, 7, 22, 5>>
    /\ assemble(NewAssembler, MoveLine(assembler.asm, 2, 5)).a.program
           = assembler.program

(***************************************************************************)
(* C33: JZ a sets pc to a if and only if Z is set and JNZ a sets pc to a   *)
(* if and only if Z is clear; a jump that is not taken advances pc by 2.   *)
(* Registers, flags, sp and memory stay as they were, and in every flag    *)
(* state exactly one of JZ and JNZ is taken.                               *)
(***************************************************************************)
ZeroSet(m) == (m.flags \div FLAG_Z) % 2 = 1

C33_ConditionalJumps ==
    [][ ( /\ CycleStep
          /\ NextOp(Machine) \in {"JZ", "JNZ"}
          /\ ~is_halted ) =>
            LET a == NextA(Machine)
                takes == IF NextOp(Machine) = "JZ" THEN ZeroSet(Machine)
                         ELSE ~ZeroSet(Machine)
            IN  /\ panic' = ""
                /\ pc' = IF takes THEN a ELSE (pc + 2) % 256
                /\ registers' = registers
                /\ flags' = flags
                /\ sp' = sp
                /\ memory' = memory
                /\ exec_JZ_JNZ(Machine, "JZ", a).pc_override
                       # exec_JZ_JNZ(Machine, "JNZ", a).pc_override
      ]_vars

\* JZ 16 with Z set was taken
C33_Witness ==
    /\ call = "cycle"
    /\ panic = ""
    /\ cycle = 1
    /\ fetched.op = "JZ"
    /\ fetched.operands.a = 16
    /\ flags = FLAG_Z + FLAG_C
    /\ ~current_skipped
    /\ pc = 16

(***************************************************************************)
(* C34: a load_program(bytes, start) that succeeds sets memory[start + i]  *)
(* to bytes[i] for every i below the length, leaves every other memory     *)
(* byte, the registers, sp, the flags and halted as they were, and sets pc *)
(* to start.                                                               *)
(***************************************************************************)
C34_LoadProgramFrame ==
    [][ (LoadProgramStep /\ panic' = "") =>
            LET program == loaded'.program
                start == loaded'.start
            IN  /\ \A i \in 0 .. Len(program) - 1 :
                       memory'[start + i] = program[i + 1]
                /\ \A x \in 0 .. MEMORY_SIZE - 1 :
                       (x < start \/ x >= start + Len(program)) =>
                           memory'[x] = memory[x]
                /\ registers' = registers
                /\ sp' = sp
                /\ flags' = flags
                /\ is_halted' = is_halted
                /\ pc' = start
      ]_vars

\* two bytes loaded at 0xFE into a halted machine with a stack in use; the
\* earlier program stays at 0
C34_Witness ==
    /\ call = "load_program"
    /\ panic = ""
    /\ loaded = [program |-> I2("INC", 0), start |-> 254]
    /\ memory[254] = U8FromOp("INC")
    /\ memory[0] = U8FromOp("LDI")
    /\ memory[255] = 0
    /\ registers[0] = 7
    /\ sp = STACK_MIN + 1
    /\ flags = FLAG_N
    /\ is_halted
    /\ pc = 254

(***************************************************************************)
(* C35: cycle() never indexes the register file outside 0..15: a           *)
(* single-register, register+immediate or register+address instruction    *)
(* whose register operand byte is 16 or more does not end the cycle with   *)
(* an index that is out of bounds.                                         *)
(***************************************************************************)
C35_RegisterIndexInBounds ==
    ( /\ call = "cycle"
      /\ fetched.operands.kind \in {"Reg", "RegImm", "RegAddr"}
      /\ fetched.operands.a >= NUM_REGISTERS ) =>
        panic # PANIC_INDEX

(***************************************************************************)
(* C36: from an empty stack (sp = 0xFF) exactly 21 consecutive PUSH/CALL   *)
(* operations succeed, writing the addresses 0xFF down to 0xEB, and the    *)
(* 22nd fails with StackOverflow; no stack operation writes the byte at    *)
(* STACK_MIN (0xEA).                                                       *)
(***************************************************************************)
C36_StackHoldsTwentyOne ==
    [][ ( /\ CycleStep
          /\ NextOp(Machine) \in PushOps
          /\ NextOp(Machine) = "PUSH" => InRegisters(NextA(Machine)) ) =>
            LET held == STACK_MAX - sp
            IN  /\ memory'[STACK_MIN] = memory[STACK_MIN]
                /\ IF held < 21
                   THEN /\ Result' = <<"()">>
                        /\ sp' = sp - 1
                        /\ sp >= STACK_MIN + 1
                        /\ \A x \in 0 .. MEMORY_SIZE - 1 :
                               x # sp => memory'[x] = memory[x]
                   ELSE /\ Result' = Err("StackOverflow", STACK_MIN)
                        /\ memory' = memory
      ]_vars

\* the addresses whose byte a step changes
Changed == { x \in 0 .. MEMORY_SIZE - 1 : memory'[x] # memory[x] }

\* address x holds a byte of the loaded program
InCode(x) ==
    x >= loaded.start /\ x < loaded.start + Len(loaded.program)

(***************************************************************************)
(* C37: memory is written only by STORE, PUSH, CALL (and CALLR) and        *)
(* load_program: a cycle of any other instruction leaves all 256 bytes as  *)
(* they were, and a writing instruction changes at most one byte.  There   *)
(* is no region protection: a STORE or a push whose target address holds   *)
(* program code writes there as anywhere else, and the instruction fetched *)
(* from an address is decoded from the bytes memory holds at that moment.  *)
(***************************************************************************)
C37_MemoryWriters ==
    [][ CycleStep =>
            LET op == NextOp(Machine)
            IN  /\ op \notin {"STORE", "PUSH", "CALL", "CALLR"} => Changed = {}
                /\ Cardinality(Changed) <= 1
                /\ op = "STORE" => Changed \subseteq {NextB(Machine)}
                /\ op \in {"PUSH", "CALL", "CALLR"} => Changed \subseteq {sp}
                /\ (op = "STORE" /\ panic' = "") =>
                       memory'[NextB(Machine)] = registers[NextA(Machine)]
                /\ (op = "PUSH" /\ panic' = "") =>
                       memory'[sp] = registers[NextA(Machine)]
                /\ fetched'.op = OpFromU8(memory[pc])
      ]_vars

\* the STORE has replaced the HLT at 6 by INC, and that INC was executed
C37_Witness ==
    /\ call = "cycle"
    /\ panic = ""
    /\ InCode(6)
    /\ loaded.program[7] = U8FromOp("HLT")
    /\ memory[6] = U8FromOp("INC")
    /\ fetched.op = "INC"
    /\ pc = 8
    /\ registers[0] = U8FromOp("INC") + 1

(***************************************************************************)
(* C38: pc and the operand fetch use modulo-256 arithmetic: the operand    *)
(* bytes of the instruction at pc are the bytes at (pc + 1) % 256 and      *)
(* (pc + 2) % 256, an instruction at 0xFF or 0xFE reads them from 0x00 and *)
(* 0x01, pc advanced past 0xFF wraps to the low addresses, and no cycle    *)
(* fails or indexes memory out of range because of pc.                     *)
(***************************************************************************)
C38_PcWrapsModulo256 ==
    [][ CycleStep =>
            LET op == NextOp(Machine)
                kind == fetched'.operands.kind
                byte_2 == memory[(pc + 1) % 256]
                byte_3 == memory[(pc + 2) % 256]
            IN  /\ fetched'.op = OpFromU8(memory[pc])
                /\ kind \in {"Reg", "RegImm", "RegAddr", "Addr"} =>
                       fetched'.operands.a = byte_2
                /\ kind = "RegReg" =>
                       fetched'.operands.a * 16 + fetched'.operands.b = byte_2
                /\ kind \in {"RegImm", "RegAddr"} =>
                       fetched'.operands.b = byte_3
                /\ (panic' = "" /\ ~is_halted' /\ ~Jumps(Machine)) =>
                       pc' = (pc + instruction_len(op)) % 256
                /\ pc' \in 0 .. MEMORY_SIZE - 1
                /\ panic' = PANIC_INDEX =>
                       /\ kind \in {"Reg", "RegImm", "RegAddr"}
                       /\ fetched'.operands.a >= NUM_REGISTERS
      ]_vars

\* the INC stored at 0xFF took its operand from 0x00 (the LDI opcode, 2)
\* and pc went on to 0x01
C38_Witness ==
    /\ call = "cycle"
    /\ panic = ""
    /\ ~is_halted
    /\ memory[255] = U8FromOp("INC")
    /\ memory[0] = 2
    /\ fetched = [op |-> "INC", operands |-> Operands("Reg", 2, 0)]
    /\ registers[2] = 1
    /\ pc = 1

\* the operations that move a value, and the value the next one moves
MoveOps == {"LDI", "LDA", "LDR", "MOV", "STORE", "PUSH", "POP"}

FlagKeepers == {"JMP", "JZ", "JNZ", "CALL", "RET", "NOP", "HLT", "PRINT"}

Moved(m) ==
    LET op == NextOp(m)
        a == NextA(m)
        b == NextB(m)
    IN  IF op = "LDI" THEN b
        ELSE IF op = "LDA" THEN m.memory[b]
        ELSE IF op = "LDR" THEN m.memory[m.registers[b]]
        ELSE IF op = "MOV" THEN m.registers[b]
        ELSE IF op = "POP" THEN m.memory[(m.sp + 1) % 256]
        ELSE m.registers[a]

FlagBit(f, bit) == (f \div bit) % 2 = 1

(***************************************************************************)
(* C39: LDI, LDA, LDR, MOV, STORE, PUSH and POP set Z and N from the value *)
(* they move (Z iff it is 0, N iff its bit 7 is set) and leave C as it     *)
(* was; JMP, JZ, JNZ, CALL, RET, NOP, HLT and PRINT leave all flags as     *)
(* they were.                                                              *)
(***************************************************************************)
C39_MovesSetZN ==
    [][ (CycleStep /\ panic' = "") =>
            /\ NextOp(Machine) \in MoveOps =>
                   /\ FlagBit(flags', FLAG_Z) <=> (Moved(Machine) = 0)
                   /\ FlagBit(flags', FLAG_N) <=> (Moved(Machine) >= 128)
                   /\ FlagBit(flags', FLAG_C) <=> FlagBit(flags, FLAG_C)
            /\ NextOp(Machine) \in FlagKeepers => flags' = flags
      ]_vars

\* POP R0 of the byte 0 on a machine that had N set and Z clear: Z is set
C39_Witness ==
    /\ call = "cycle"
    /\ panic = ""
    /\ cycle = 1
    /\ fetched = [op |-> "POP", operands |-> Operands("Reg", 0, 0)]
    /\ registers[0] = 0
    /\ sp = STACK_MIN + 2
    /\ flags = FLAG_Z

=============================================================================
